---- MODULE Spec2Model ----
(***************************************************************************)
(* Free type variables of the erg compiler (crates/erg_compiler/ty/free.rs) *)
(* as a state machine over a heap of shared cells.                          *)
(*                                                                          *)
(* A cell is a Shared<FreeKind<Type>>; a Type::FreeVar(c) term is a handle  *)
(* on cell c, so terms and constraints refer to cells by identity and the   *)
(* graph may be cyclic.                                                     *)
(***************************************************************************)
EXTENDS Integers, Sequences, FiniteSets, TLC

VARIABLES cells, UNBOUND_ID, journal, last, held, linker, errors

vars == <<cells, UNBOUND_ID, journal, last, held, linker, errors>>

(***************************************************************************)
(* Bounds of the model.                                                     *)
(***************************************************************************)
\* cap on the thread-local id counter (the code's counter is a usize)
MaxId == 2
\* cap on the undoable links that are outstanding in the heap at one time
MaxUndo == 2
\* cap on the finite levels set_level, lower and lift are run at
MaxLevel == 1
MaxItems == 3
\* the errors the shared buffer holds at most
MaxErrors == 2

\* usize::MAX, at the width of TLC's integers
GENERIC_LEVEL == 2147483647

\* identities of the Shared cells the heap can hold; 0 is "no cell"
Cells == {1, 2}
NoCell == 0

\* the levels cells are created at, and the levels set_level and lower are given
Levels == {0, GENERIC_LEVEL}
SetLevels == (0 .. MaxLevel) \cup {GENERIC_LEVEL}
Names == {"T"}

(***************************************************************************)
(* Type terms.                                                              *)
(***************************************************************************)
Never == [tag |-> "Never"]
Obj == [tag |-> "Obj"]
TypeT == [tag |-> "Type"]
IntT == [tag |-> "Int"]
FreeVar(c) == [tag |-> "FreeVar", cell |-> c]
\* a nominal type with one type parameter, as poly("Add", vec![ty_tp(t)])
Poly(n, t) == [tag |-> "Poly", name |-> n, param |-> t]

\* the cells a term holds a handle on
RECURSIVE TypeCells(_)
TypeCells(t) ==
    IF t.tag = "FreeVar" THEN {t.cell}
    ELSE IF t.tag = "Poly" THEN TypeCells(t.param)
    ELSE {}

(***************************************************************************)
(* Constraint.                                                              *)
(***************************************************************************)
Sandwiched(sub, sup) == [ctag |-> "Sandwiched", sub |-> sub, sup |-> sup]
TypeOf(t) == [ctag |-> "TypeOf", t |-> t]
Uninited == [ctag |-> "Uninited"]

new_sandwiched(sub, sup) == Sandwiched(sub, sup)
new_subtype_of(sup) == new_sandwiched(Never, sup)
new_supertype_of(sub) == new_sandwiched(sub, Obj)

ConstraintCells(con) ==
    IF con.ctag = "Sandwiched" THEN TypeCells(con.sub) \cup TypeCells(con.sup)
    ELSE IF con.ctag = "TypeOf" THEN TypeCells(con.t)
    ELSE {}

(***************************************************************************)
(* FreeKind: the four states of a cell.                                     *)
(***************************************************************************)
Null == [kind |-> "Null"]
Unbound(id, lev, con) ==
    [kind |-> "Unbound", id |-> id, lev |-> lev, constraint |-> con]
NamedUnbound(name, lev, con) ==
    [kind |-> "NamedUnbound", name |-> name, lev |-> lev, constraint |-> con]
Linked(t) == [kind |-> "Linked", t |-> t]
UndoableLinked(t, prev) == [kind |-> "UndoableLinked", t |-> t, previous |-> prev]

KindIsUnbound(k) == k.kind \in {"Unbound", "NamedUnbound"}
KindIsLinked(k) == k.kind \in {"Linked", "UndoableLinked"}

\* how many UndoableLinked states are nested in a FreeKind
RECURSIVE UndoDepth(_)
UndoDepth(k) == IF k.kind = "UndoableLinked" THEN 1 + UndoDepth(k.previous) ELSE 0

Allocated(h) == {c \in Cells : h[c] # Null}

\* the undoable links outstanding in the heap
RECURSIVE SumUndoDepth(_, _)
SumUndoDepth(h, S) ==
    IF S = {} THEN 0
    ELSE LET c == CHOOSE x \in S : TRUE
         IN  UndoDepth(h[c]) + SumUndoDepth(h, S \ {c})
Outstanding(h) == SumUndoDepth(h, Cells)

(***************************************************************************)
(* State inspectors of Free<T>.                                             *)
(***************************************************************************)
is_linked(h, c) == KindIsLinked(h[c])
is_undoable_linked(h, c) == h[c].kind = "UndoableLinked"
is_unbound(h, c) == KindIsUnbound(h[c])
\* crack() panics on an unbound cell; callers test is_linked first
crack(h, c) == h[c].t

(***************************************************************************)
(* Results of an operation: the heap it leaves and how it ended.            *)
(***************************************************************************)
Ok(h) == [h |-> h, out |-> "ok"]
Panic(h) == [h |-> h, out |-> "panic"]

(***************************************************************************)
(* A `to: &T` argument: the term, the place it lives at (the cell whose     *)
(* stored term it points into, or NoCell for a term of the caller's own)    *)
(* and how the reference was obtained: "crack" keeps a Ref of the cell      *)
(* alive, "owned" is the caller's own term.                                 *)
(***************************************************************************)
ToRef(val, at, via) == [val |-> val, at |-> at, via |-> via]

\* addr_eq!(*self.crack(), *to)
addr_eq_crack(c, to) == to.at = c

\* addr_eq!(x, param) against a by-value parameter: the parameter lives in
\* the callee's frame, never at the address of the cell's contents
addr_eq_param == FALSE

\* *self.borrow_mut() = new: panics (BorrowMutError) while a Ref is alive
borrow_mut_assign(h, c, new, to) ==
    IF to.via = "crack" /\ to.at = c
    THEN Panic(h)
    ELSE Ok([h EXCEPT ![c] = new])

force_replace(h, c, new) ==
    IF addr_eq_param THEN Ok(h) ELSE Ok([h EXCEPT ![c] = new])

replace(h, c, to) ==
    IF is_linked(h, c) /\ addr_eq_param THEN Ok(h) ELSE Ok([h EXCEPT ![c] = to])


\* link as a slip would have it: the self-link guard left out
link_unguarded(h, c, to) == borrow_mut_assign(h, c, Linked(to.val), to)

\* link as a slip would have it: the body of undoable_link pasted in
link_speculative(h, c, to) ==
    IF is_linked(h, c) /\ addr_eq_crack(c, to)
    THEN Ok(h)
    ELSE borrow_mut_assign(h, c, UndoableLinked(to.val, h[c]), to)

\* link as a slip would have it: the saved state of a speculative link
\* outlives the link
link_keeps_previous(h, c, to) ==
    IF is_linked(h, c) /\ addr_eq_crack(c, to)
    THEN Ok(h)
    ELSE IF h[c].kind = "UndoableLinked"
    THEN borrow_mut_assign(h, c, UndoableLinked(to.val, h[c].previous), to)
    ELSE borrow_mut_assign(h, c, Linked(to.val), to)

link(h, c, to) ==
    IF is_linked(h, c) /\ addr_eq_crack(c, to)
    THEN Ok(h)
    ELSE borrow_mut_assign(h, c, Linked(to.val), to)

forced_link(h, c, to) ==
    IF is_linked(h, c) /\ addr_eq_crack(c, to)
    THEN Ok(h)
    ELSE Ok([h EXCEPT ![c] = Linked(to.val)])

clone_inner(h, c) == h[c]

\* undoable_link as a slip would have it: the saved state is rebuilt from
\* the name and the level, and the constraint is lost
undoable_link_loses_constraint(h, c, to) ==
    IF is_linked(h, c) /\ addr_eq_crack(c, to)
    THEN Panic(h)
    ELSE LET prev == IF KindIsUnbound(h[c])
                     THEN [h[c] EXCEPT !.constraint = Uninited]
                     ELSE h[c]
         IN  borrow_mut_assign(h, c, UndoableLinked(to.val, prev), to)

undoable_link(h, c, to) ==
    IF is_linked(h, c) /\ addr_eq_crack(c, to)
    THEN Panic(h)
    ELSE borrow_mut_assign(h, c, UndoableLinked(to.val, clone_inner(h, c)), to)

forced_undoable_link(h, c, to) ==
    IF is_linked(h, c) /\ addr_eq_crack(c, to)
    THEN Panic(h)
    ELSE force_replace(h, c, UndoableLinked(to.val, clone_inner(h, c)))

\* undo as a slip would have it: the whole chain of saved states is unwound
undo_unwinds(h, c) ==
    IF h[c].kind = "UndoableLinked"
    THEN IF h[c].previous.kind = "UndoableLinked"
         THEN force_replace(h, c, h[c].previous.previous)
         ELSE force_replace(h, c, h[c].previous)
    ELSE Panic(h)

\* undo as a slip would have it: a cell that is not undoable is left alone
undo_silent(h, c) ==
    IF h[c].kind = "UndoableLinked"
    THEN force_replace(h, c, h[c].previous)
    ELSE Ok(h)

\* undo as a slip would have it: the saved state is never put back
undo_forgets(h, c) ==
    IF h[c].kind = "UndoableLinked"
    THEN Ok(h)
    ELSE Panic(h)

undo(h, c) ==
    IF h[c].kind = "UndoableLinked"
    THEN force_replace(h, c, h[c].previous)
    ELSE Panic(h)


(***************************************************************************)
(* Operations that walk from a cell into the terms it holds.  The walk is   *)
(* a recursion on the call stack: StackDepth frames are more than any walk  *)
(* over distinct cells needs, so a walk that uses them all is on a cycle    *)
(* and, in the code, overflows the stack.                                   *)
(***************************************************************************)
StackDepth == 4 * Cardinality(Cells) + 4
Overflow(h) == [h |-> h, out |-> "overflow"]
Rejected(h) == [h |-> h, out |-> "rejected"]

RECURSIVE update_constraint(_, _, _, _, _)
RECURSIVE Type_update_constraint(_, _, _, _, _)

\* CanbeFree for Type: a FreeVar forwards to its cell, other terms ignore it
Type_update_constraint(h, t, new, in_inst_or_gen, fuel) ==
    IF fuel = 0 THEN Overflow(h)
    ELSE IF t.tag = "FreeVar"
    THEN update_constraint(h, t.cell, new, in_inst_or_gen, fuel - 1)
    ELSE Ok(h)

\* update_constraint as a slip would have it: the level is not looked at
update_constraint_unchecked(h, c, new, in_inst_or_gen, fuel) ==
    IF fuel = 0 THEN Overflow(h)
    ELSE IF KindIsUnbound(h[c])
    THEN Ok([h EXCEPT ![c].constraint = new])
    ELSE Type_update_constraint(h, h[c].t, new, in_inst_or_gen, fuel - 1)

\* update_constraint as a slip would have it: a speculatively linked cell
\* takes the constraint into its saved state
update_constraint_into_previous(h, c, new, in_inst_or_gen, fuel) ==
    IF fuel = 0 THEN Overflow(h)
    ELSE IF KindIsUnbound(h[c])
    THEN IF ~in_inst_or_gen /\ h[c].lev = GENERIC_LEVEL
         THEN Rejected(h)
         ELSE Ok([h EXCEPT ![c].constraint = new])
    ELSE IF h[c].kind = "UndoableLinked" /\ KindIsUnbound(h[c].previous)
    THEN Ok([h EXCEPT ![c].previous.constraint = new])
    ELSE Type_update_constraint(h, h[c].t, new, in_inst_or_gen, fuel - 1)

update_constraint(h, c, new, in_inst_or_gen, fuel) ==
    IF fuel = 0 THEN Overflow(h)
    ELSE IF KindIsUnbound(h[c])
    THEN IF ~in_inst_or_gen /\ h[c].lev = GENERIC_LEVEL
         THEN Rejected(h)
         ELSE IF addr_eq_param
         THEN Ok(h)
         ELSE Ok([h EXCEPT ![c].constraint = new])
    ELSE Type_update_constraint(h, h[c].t, new, in_inst_or_gen, fuel - 1)

(***************************************************************************)
(* Levels.  An Option<Level> is the level, or NoLevel for None.             *)
(***************************************************************************)
NoLevel == -1
LevelOverflow == -2

RECURSIVE level(_, _, _)
RECURSIVE Type_level(_, _, _)

\* HasLevel for Type: the minimum level among the embedded variables
Type_level(h, t, fuel) ==
    IF fuel = 0 THEN LevelOverflow
    ELSE IF t.tag = "FreeVar" THEN level(h, t.cell, fuel - 1)
    ELSE IF t.tag = "Poly" THEN Type_level(h, t.param, fuel - 1)
    ELSE NoLevel

level(h, c, fuel) ==
    IF fuel = 0 THEN LevelOverflow
    ELSE IF KindIsUnbound(h[c]) THEN h[c].lev
    ELSE Type_level(h, h[c].t, fuel - 1)

\* Constraint::get_sub_sup / get_type on the cell's own constraint
con_is_sandwiched(con) == con.ctag = "Sandwiched"
con_get_type(con) ==
    IF con.ctag = "TypeOf" THEN con.t
    ELSE IF con.ctag = "Sandwiched" /\ con.sub = Never /\ con.sup = Obj THEN TypeT
    ELSE Null
con_get_sub(con) == IF con.ctag = "Sandwiched" THEN con.sub ELSE Null
con_get_super(con) == IF con.ctag = "Sandwiched" THEN con.sup ELSE Null
\* get_sub_sup as a slip would have it: the bounds the wrong way round
con_get_sup_sub(con) ==
    IF con.ctag = "Sandwiched" THEN <<con.sup, con.sub>> ELSE Null

con_get_sub_sup(con) ==
    IF con.ctag = "Sandwiched" THEN <<con.sub, con.sup>> ELSE Null

\* addr_eq!(*lev, level): the field of the cell against the parameter
addr_eq_level(lev, lvl) == addr_eq_param

\* what a walk of set_level hands back: the heap, how the call ended, and
\* the cells whose lev field it has stored, one entry per store
Walked(r, stores) == [h |-> r.h, out |-> r.out, stores |-> stores]

RECURSIVE set_level(_, _, _, _)
RECURSIVE Type_set_level(_, _, _, _)

\* HasLevel for Type as a slip would have it: the embedded variables are
\* left alone
Type_set_level_skips(h, t, lvl, fuel) == Walked(Ok(h), <<>>)

\* HasLevel for Type: sets the level of every embedded variable
Type_set_level(h, t, lvl, fuel) ==
    IF fuel = 0 THEN Walked(Overflow(h), <<>>)
    ELSE IF t.tag = "FreeVar" THEN set_level(h, t.cell, lvl, fuel - 1)
    ELSE IF t.tag = "Poly" THEN Type_set_level(h, t.param, lvl, fuel - 1)
    ELSE Walked(Ok(h), <<>>)

\* set_level as a slip would have it: the comparison of lower pasted in
set_level_only_raises(h, c, lvl, fuel) ==
    IF fuel = 0 THEN Walked(Overflow(h), <<>>)
    ELSE IF KindIsUnbound(h[c])
    THEN IF h[c].lev >= lvl
         THEN Walked(Ok(h), <<>>)
         ELSE LET h1 == [h EXCEPT ![c].lev = lvl]
                  con == h1[c].constraint
              IN  IF con_is_sandwiched(con)
                  THEN LET linked == forced_undoable_link(
                                         h1, c, ToRef(con.sub, NoCell, "owned"))
                           sub == IF linked.out = "ok"
                                  THEN Type_set_level(linked.h, con.sub, lvl, fuel - 1)
                                  ELSE Walked(linked, <<>>)
                           sup == IF sub.out = "ok"
                                  THEN Type_set_level(sub.h, con.sup, lvl, fuel - 1)
                                  ELSE Walked(sub, <<>>)
                       IN  Walked(IF sup.out = "ok" THEN undo(sup.h, c) ELSE sup,
                                  <<c>> \o sub.stores \o sup.stores)
                  ELSE IF con_get_type(con) # Null
                  THEN LET t == Type_set_level(h1, con_get_type(con), lvl, fuel - 1)
                       IN  Walked(t, <<c>> \o t.stores)
                  ELSE Walked(Ok(h1), <<c>>)
    ELSE IF h[c].kind = "Linked"
    THEN Type_set_level(h, h[c].t, lvl, fuel - 1)
    ELSE Walked(Ok(h), <<>>)

\* set_level as a slip would have it: a speculative link is followed like
\* a link, as level() follows it
set_level_follows_undoable(h, c, lvl, fuel) ==
    IF fuel = 0 THEN Walked(Overflow(h), <<>>)
    ELSE IF KindIsUnbound(h[c])
    THEN IF addr_eq_level(h[c].lev, lvl)
         THEN Walked(Ok(h), <<>>)
         ELSE LET h1 == [h EXCEPT ![c].lev = lvl]
                  con == h1[c].constraint
              IN  IF con_is_sandwiched(con)
                  THEN LET linked == forced_undoable_link(
                                         h1, c, ToRef(con.sub, NoCell, "owned"))
                           sub == IF linked.out = "ok"
                                  THEN Type_set_level(linked.h, con.sub, lvl, fuel - 1)
                                  ELSE Walked(linked, <<>>)
                           sup == IF sub.out = "ok"
                                  THEN Type_set_level(sub.h, con.sup, lvl, fuel - 1)
                                  ELSE Walked(sub, <<>>)
                       IN  Walked(IF sup.out = "ok" THEN undo(sup.h, c) ELSE sup,
                                  <<c>> \o sub.stores \o sup.stores)
                  ELSE IF con_get_type(con) # Null
                  THEN LET t == Type_set_level(h1, con_get_type(con), lvl, fuel - 1)
                       IN  Walked(t, <<c>> \o t.stores)
                  ELSE Walked(Ok(h1), <<c>>)
    ELSE Type_set_level(h, h[c].t, lvl, fuel - 1)

set_level(h, c, lvl, fuel) ==
    IF fuel = 0 THEN Walked(Overflow(h), <<>>)
    ELSE IF KindIsUnbound(h[c])
    THEN IF addr_eq_level(h[c].lev, lvl)
         THEN Walked(Ok(h), <<>>)
         ELSE LET h1 == [h EXCEPT ![c].lev = lvl]
                  con == h1[c].constraint
              IN  IF con_is_sandwiched(con)
                  THEN LET linked == forced_undoable_link(
                                         h1, c, ToRef(con.sub, NoCell, "owned"))
                           sub == IF linked.out = "ok"
                                  THEN Type_set_level(linked.h, con.sub, lvl, fuel - 1)
                                  ELSE Walked(linked, <<>>)
                           sup == IF sub.out = "ok"
                                  THEN Type_set_level(sub.h, con.sup, lvl, fuel - 1)
                                  ELSE Walked(sub, <<>>)
                       IN  Walked(IF sup.out = "ok" THEN undo(sup.h, c) ELSE sup,
                                  <<c>> \o sub.stores \o sup.stores)
                  ELSE IF con_get_type(con) # Null
                  THEN LET t == Type_set_level(h1, con_get_type(con), lvl, fuel - 1)
                       IN  Walked(t, <<c>> \o t.stores)
                  ELSE Walked(Ok(h1), <<c>>)
    ELSE IF h[c].kind = "Linked"
    THEN Type_set_level(h, h[c].t, lvl, fuel - 1)
    ELSE Walked(Ok(h), <<>>)

\* the default methods of HasLevel
\* lower as a slip would have it: the comparison left out
lower_always_sets(h, c, lvl) ==
    LET cur == level(h, c, StackDepth)
    IN  IF cur = LevelOverflow THEN Overflow(h)
        ELSE set_level(h, c, lvl, StackDepth)

lower(h, c, lvl) ==
    LET cur == level(h, c, StackDepth)
    IN  IF cur = LevelOverflow THEN Overflow(h)
        ELSE IF cur < lvl THEN set_level(h, c, lvl, StackDepth)
        ELSE Ok(h)

\* usize addition as a slip would have it: wrapping, not saturating
wrapping_add_1(lev) == IF lev = GENERIC_LEVEL THEN 0 ELSE lev + 1

saturating_add_1(lev) == IF lev = GENERIC_LEVEL THEN GENERIC_LEVEL ELSE lev + 1

lift(h, c) ==
    LET cur == level(h, c, StackDepth)
    IN  IF cur = LevelOverflow THEN Overflow(h)
        ELSE IF cur # NoLevel THEN set_level(h, c, saturating_add_1(cur), StackDepth)
        ELSE Ok(h)

generalize(h, c) == set_level(h, c, GENERIC_LEVEL, StackDepth)

is_generalized(h, c) == level(h, c, StackDepth) = GENERIC_LEVEL


(***************************************************************************)
(* Reads that follow links: the name, the constraint and the bounds of a    *)
(* cell.  A linked cell asks the term it holds, and a FreeVar term asks its *)
(* cell.                                                                    *)
(***************************************************************************)
NoName == "<none>"
NameOverflow == "<overflow>"
\* format!("%{id}")
IdName(id) == "%" \o ToString(id)

RECURSIVE Free_unbound_name(_, _, _)
RECURSIVE Type_unbound_name(_, _, _)

\* CanbeFree for Type: a FreeVar has the name of its cell, other terms none
Type_unbound_name(h, t, fuel) ==
    IF fuel = 0 THEN NameOverflow
    ELSE IF t.tag = "FreeVar" THEN Free_unbound_name(h, t.cell, fuel - 1)
    ELSE NoName

Free_unbound_name(h, c, fuel) ==
    IF fuel = 0 THEN NameOverflow
    ELSE IF h[c].kind = "NamedUnbound" THEN h[c].name
    ELSE IF h[c].kind = "Unbound" THEN IdName(h[c].id)
    ELSE Type_unbound_name(h, h[c].t, fuel - 1)

NoConstraint == [ctag |-> "None"]
ConstraintOverflow == [ctag |-> "Overflow"]

RECURSIVE Free_constraint(_, _, _)
RECURSIVE Type_constraint(_, _, _)

\* CanbeFree for Type: a FreeVar has the constraint of its cell
Type_constraint(h, t, fuel) ==
    IF fuel = 0 THEN ConstraintOverflow
    ELSE IF t.tag = "FreeVar" THEN Free_constraint(h, t.cell, fuel - 1)
    ELSE NoConstraint

Free_constraint(h, c, fuel) ==
    IF fuel = 0 THEN ConstraintOverflow
    ELSE IF KindIsUnbound(h[c]) THEN h[c].constraint
    ELSE Type_constraint(h, h[c].t, fuel - 1)

(***************************************************************************)
(* Hash, == and structural_eq of a cell.  Each returns the heap it leaves   *)
(* and how it ended: a comparison ends "true" or "false", a hash ends "ok"  *)
(* with the values it fed the hasher.                                       *)
(***************************************************************************)
Bool(h, v) == [h |-> h, out |-> IF v THEN "true" ELSE "false"]
Hashed(h, v) == [h |-> h, out |-> "ok", val |-> v]
Returned(r) == r.out \in {"ok", "true", "false"}

\* T::default(), the term structural_eq links the cell to during its walk
Failure == [tag |-> "Failure"]

RECURSIVE Free_hash(_, _, _)
RECURSIVE Type_hash(_, _, _)

\* Hash for Type: the variant, then its fields
Type_hash(h, t, fuel) ==
    IF fuel = 0 THEN Overflow(h)
    ELSE IF t.tag = "FreeVar"
    THEN LET r == Free_hash(h, t.cell, fuel - 1)
         IN  IF r.out = "ok" THEN Hashed(r.h, <<"FreeVar">> \o r.val) ELSE r
    ELSE IF t.tag = "Poly"
    THEN LET r == Type_hash(h, t.param, fuel - 1)
         IN  IF r.out = "ok" THEN Hashed(r.h, <<"Poly", t.name>> \o r.val) ELSE r
    ELSE Hashed(h, <<t.tag>>)

Free_hash(h, c, fuel) ==
    IF fuel = 0 THEN Overflow(h)
    ELSE LET name == Free_unbound_name(h, c, fuel - 1)
             lev == level(h, c, fuel - 1)
             con == Free_constraint(h, c, fuel - 1)
             fed == (IF name # NoName THEN <<name>> ELSE <<>>)
                        \o (IF lev # NoLevel THEN <<ToString(lev)>> ELSE <<>>)
         IN  IF \/ name = NameOverflow
                \/ lev = LevelOverflow
                \/ con = ConstraintOverflow
             THEN Overflow(h)
             ELSE IF con_is_sandwiched(con)
             THEN LET linked == forced_undoable_link(
                                    h, c, ToRef(con.sub, NoCell, "owned"))
                      sub == IF linked.out = "ok"
                             THEN Type_hash(linked.h, con.sub, fuel - 1)
                             ELSE linked
                      sup == IF sub.out = "ok"
                             THEN Type_hash(sub.h, con.sup, fuel - 1)
                             ELSE sub
                      undone == IF sup.out = "ok" THEN undo(sup.h, c) ELSE sup
                  IN  IF undone.out = "ok"
                      THEN Hashed(undone.h, fed \o sub.val \o sup.val)
                      ELSE undone
             ELSE IF con_get_type(con) # Null
             THEN LET r == Type_hash(h, con_get_type(con), fuel - 1)
                  IN  IF r.out = "ok" THEN Hashed(r.h, fed \o r.val) ELSE r
             ELSE IF is_linked(h, c)
             THEN LET r == Type_hash(h, crack(h, c), fuel - 1)
                  IN  IF r.out = "ok" THEN Hashed(r.h, fed \o r.val) ELSE r
             ELSE Hashed(h, fed)

RECURSIVE Free_eq(_, _, _, _)
RECURSIVE Type_eq(_, _, _, _)

\* PartialEq for Type: a linked FreeVar stands for its term, two unbound
\* FreeVars compare as cells, other terms compare by variant and fields
Type_eq(h, t1, t2, fuel) ==
    IF fuel = 0 THEN Overflow(h)
    ELSE IF t1.tag = "FreeVar" /\ is_linked(h, t1.cell)
    THEN Type_eq(h, crack(h, t1.cell), t2, fuel - 1)
    ELSE IF t2.tag = "FreeVar" /\ is_linked(h, t2.cell)
    THEN Type_eq(h, t1, crack(h, t2.cell), fuel - 1)
    ELSE IF t1.tag = "FreeVar" /\ t2.tag = "FreeVar"
    THEN Free_eq(h, t1.cell, t2.cell, fuel - 1)
    ELSE IF t1.tag = "Poly" /\ t2.tag = "Poly"
    THEN IF t1.name = t2.name
         THEN Type_eq(h, t1.param, t2.param, fuel - 1)
         ELSE Bool(h, FALSE)
    ELSE Bool(h, t1.tag = t2.tag /\ t1.tag \notin {"FreeVar", "Poly"})

\* == as a slip would have it: the comparison written for cells of type
\* parameters, which never looks at sandwich bounds
Free_eq_without_bounds(h, a, b, fuel) ==
    IF fuel = 0 THEN Overflow(h)
    ELSE LET self_name == Free_unbound_name(h, a, fuel - 1)
             other_name == Free_unbound_name(h, b, fuel - 1)
             self_lev == level(h, a, fuel - 1)
             other_lev == level(h, b, fuel - 1)
             self_t == con_get_type(Free_constraint(h, a, fuel - 1))
             other_t == con_get_type(Free_constraint(h, b, fuel - 1))
         IN  IF self_name # other_name \/ self_lev # other_lev
             THEN Bool(h, FALSE)
             ELSE IF self_t # Null /\ other_t # Null
             THEN Type_eq(h, self_t, other_t, fuel - 1)
             ELSE IF is_linked(h, a) /\ is_linked(h, b)
             THEN Type_eq(h, crack(h, a), crack(h, b), fuel - 1)
             ELSE Bool(h, FALSE)

Free_eq(h, a, b, fuel) ==
    IF fuel = 0 THEN Overflow(h)
    ELSE LET self_name == Free_unbound_name(h, a, fuel - 1)
             other_name == Free_unbound_name(h, b, fuel - 1)
             self_lev == level(h, a, fuel - 1)
             other_lev == level(h, b, fuel - 1)
             self_con == Free_constraint(h, a, fuel - 1)
             other_con == Free_constraint(h, b, fuel - 1)
         IN  IF self_name = NameOverflow \/ other_name = NameOverflow
             THEN Overflow(h)
             ELSE IF /\ self_name # NoName
                     /\ other_name # NoName
                     /\ self_name # other_name
             THEN Bool(h, FALSE)
             ELSE IF self_lev = LevelOverflow \/ other_lev = LevelOverflow
             THEN Overflow(h)
             ELSE IF /\ self_lev # NoLevel
                     /\ other_lev # NoLevel
                     /\ self_lev # other_lev
             THEN Bool(h, FALSE)
             ELSE IF self_con = ConstraintOverflow \/ other_con = ConstraintOverflow
             THEN Overflow(h)
             ELSE IF con_is_sandwiched(self_con)
             THEN IF con_is_sandwiched(other_con)
                  THEN LET linked == forced_undoable_link(
                                         h, a, ToRef(self_con.sub, NoCell, "owned"))
                           sub == IF linked.out = "ok"
                                  THEN Type_eq(linked.h, self_con.sub,
                                               other_con.sub, fuel - 1)
                                  ELSE linked
                           sup == IF sub.out = "true"
                                  THEN Type_eq(sub.h, self_con.sup,
                                               other_con.sup, fuel - 1)
                                  ELSE sub
                           undone == IF Returned(sup) THEN undo(sup.h, a) ELSE sup
                       IN  IF undone.out = "ok"
                           THEN Bool(undone.h, sup.out = "true")
                           ELSE undone
                  ELSE Bool(h, FALSE)
             ELSE IF con_get_type(self_con) # Null /\ con_get_type(other_con) # Null
             THEN Type_eq(h, con_get_type(self_con), con_get_type(other_con),
                          fuel - 1)
             ELSE IF is_linked(h, a) /\ is_linked(h, b)
             THEN Type_eq(h, crack(h, a), crack(h, b), fuel - 1)
             ELSE Bool(h, FALSE)

\* Constraint::new_type_of as a slip would have it: Type is not put in its
\* canonical form
new_type_of_as_given(h, t) == TypeOf(t)

\* `t == Type::Type` is the == of terms, which sees through links
new_type_of(h, t) ==
    LET is_type == Type_eq(h, t, TypeT, StackDepth)
    IN  IF is_type.out = "true" THEN new_sandwiched(Never, Obj)
        ELSE IF is_type.out = "false" THEN TypeOf(t)
        ELSE ConstraintOverflow

RECURSIVE Free_structural_eq(_, _, _, _)
RECURSIVE Type_structural_eq(_, _, _, _)

\* StructuralEq for Type: FreeVars compare as cells, nominal types by name
\* and parameter, other terms by ==
Type_structural_eq(h, t1, t2, fuel) ==
    IF fuel = 0 THEN Overflow(h)
    ELSE IF t1.tag = "FreeVar" /\ t2.tag = "FreeVar"
    THEN Free_structural_eq(h, t1.cell, t2.cell, fuel - 1)
    ELSE IF t1.tag = "Poly" /\ t2.tag = "Poly"
    THEN IF t1.name = t2.name
         THEN Type_structural_eq(h, t1.param, t2.param, fuel - 1)
         ELSE Bool(h, FALSE)
    ELSE Type_eq(h, t1, t2, fuel - 1)

Free_structural_eq(h, a, b, fuel) ==
    IF fuel = 0 THEN Overflow(h)
    ELSE LET self_con == Free_constraint(h, a, fuel - 1)
             other_con == Free_constraint(h, b, fuel - 1)
         IN  IF self_con = ConstraintOverflow \/ other_con = ConstraintOverflow
             THEN Overflow(h)
             ELSE IF con_is_sandwiched(self_con) /\ con_is_sandwiched(other_con)
             THEN LET linked == forced_undoable_link(
                                    h, a, ToRef(Failure, NoCell, "owned"))
                      sub == IF linked.out = "ok"
                             THEN Type_structural_eq(linked.h, self_con.sub,
                                                     other_con.sub, fuel - 1)
                             ELSE linked
                      sup == IF sub.out = "true"
                             THEN Type_structural_eq(sub.h, self_con.sup,
                                                     other_con.sup, fuel - 1)
                             ELSE sub
                      undone == IF Returned(sup) THEN undo(sup.h, a) ELSE sup
                  IN  IF undone.out = "ok"
                      THEN Bool(undone.h, sup.out = "true")
                      ELSE undone
             ELSE IF con_get_type(self_con) # Null /\ con_get_type(other_con) # Null
             THEN Type_structural_eq(h, con_get_type(self_con),
                                     con_get_type(other_con), fuel - 1)
             ELSE Bool(h, self_con = Uninited /\ other_con = Uninited)

(***************************************************************************)
(* Constructors.  Each takes the value of the thread-local counter and      *)
(* returns the counter it leaves with the FreeKind it built: the anonymous  *)
(* ones bump the counter, then read it.                                     *)
(***************************************************************************)
Built(id, k) == [id |-> id, kind |-> k]

FreeKind_new_unbound(id, lev, con) == Built(id + 1, Unbound(id + 1, lev, con))
\* new_unbound as a slip would have it: the counter is read and not bumped
Free_new_unbound_no_bump(id, lev, con) == Built(id, Unbound(id, lev, con))

Free_new_unbound(id, lev, con) == Built(id + 1, Unbound(id + 1, lev, con))
Free_new_named_unbound(id, name, lev, con) == Built(id, NamedUnbound(name, lev, con))

\* unwrap_unbound panics on a linked cell; otherwise detach builds a fresh
\* cell from the name (or a fresh id), the level and the constraint
detach(id, k) ==
    IF k.kind = "NamedUnbound"
    THEN Free_new_named_unbound(id, k.name, k.lev, k.constraint)
    ELSE Free_new_unbound(id, k.lev, k.constraint)

(***************************************************************************)
(* Inputs.                                                                  *)
(***************************************************************************)
\* the slot the next Shared::new takes
FreeSlots == {c \in Cells : cells[c] = Null}
NextSlot == CHOOSE c \in FreeSlots : \A d \in FreeSlots : c <= d

TermInputs == {IntT} \cup {FreeVar(d) : d \in Allocated(cells)}

\* the constraints a cell is created with
ConstraintInputs == {new_type_of(cells, IntT)}

\* the constraints update_constraint is given on cell c: the bound can mention
\* the cell itself, which is how a cyclic bound comes about
UpdateInputs(c) ==
    {new_type_of(cells, IntT), new_subtype_of(Poly("Add", FreeVar(c)))}

\* the sandwich bounds inference gives cell c: a bound can name c itself or
\* another cell, below (:> d) or above (<: Add(d))
BoundInputs(c) ==
    {new_type_of(cells, TypeT)}
        \cup {new_subtype_of(Poly("Add", FreeVar(d))) : d \in Allocated(cells)}
        \cup {new_supertype_of(FreeVar(d)) : d \in Allocated(cells)}

\* the references a caller can pass to cell c as `to`: a term of its own, or
\* the term stored in c, borrowed by c.crack()
ToInputs(c) ==
    {ToRef(t, NoCell, "owned") : t \in TermInputs}
        \cup (IF is_linked(cells, c)
              THEN {ToRef(crack(cells, c), c, "crack")}
              ELSE {})

\* the FreeKind values a caller can pass to replace and force_replace
KindInputs ==
    {Linked(t) : t \in TermInputs}
        \cup {NamedUnbound(n, 0, Uninited) : n \in Names}

(***************************************************************************)
(* The state machine.  `last` records the operation that ran last, its      *)
(* receiver, its argument and how it ended; `journal` records, per cell,    *)
(* the states the cell went through in its current run of undoable links.   *)
(***************************************************************************)
NoArg == "-"
Last(op, c, pre, arg, out) ==
    [op |-> op, cell |-> c, pre |-> pre, arg |-> arg, out |-> out]

\* what `last` keeps of a `to` argument: whether it points into the receiver
\* and how it was got
ToArg(c, to) == IF to.at = c THEN to.via ELSE "other"

Alive == last.out # "overflow"

(***************************************************************************)
(* The linker.  A module is a sequence of chunks: a Def with its name and   *)
(* the name of the callee when the first expression of its body is a call   *)
(* ("none" when it is not), a Methods block with the class it names (simple *)
(* or not), or any other expression.  id is the place of the chunk in the   *)
(* source.                                                                  *)
(***************************************************************************)
ClassNames == {"A", "B"}
\* the names a Methods block may give: those of the definitions and one that
\* no definition has
TargetNames == ClassNames \cup {"C"}
\* the callees as a slip would have them: Class only
ClassCallees_class_only == {"Class"}

ClassCallees == {"Class", "Inherit", "Inheritable"}

Chunks(i) ==
    {[kind |-> "Def", id |-> i, name |-> n, callee |-> f] :
        n \in ClassNames,
        f \in {"Class", "Inherit", "Inheritable", "print", "none"}}
    \cup {[kind |-> "Methods", id |-> i, simple |-> TRUE, name |-> n] :
             n \in TargetNames}
    \cup {[kind |-> "Methods", id |-> i, simple |-> FALSE, name |-> "A.B"]}
    \cup {[kind |-> "Other", id |-> i]}

\* the modules of at most n chunks
RECURSIVE Modules(_)
Modules(n) ==
    IF n = 0 THEN {<<>>}
    ELSE Modules(n - 1)
             \cup {Append(m, c) : m \in {x \in Modules(n - 1) : Len(x) = n - 1},
                                  c \in Chunks(n)}

\* ClassDef::new as a slip would have it: the definition is not wrapped
ClassDef_unwrapped(def, methods_list) == def

ClassDef(def, methods_list) ==
    [kind |-> "ClassDef", def |-> def, methods_list |-> methods_list]

\* def_root_pos_map.get(name) of a name that is not registered
NoPos == -1

\* Linker::new() at the start of link(ast); input keeps the module as given
Linker_new(module) ==
    [input |-> module,
     module |-> module,
     new |-> <<>>,
     def_root_pos_map |-> [n \in TargetNames |-> NoPos],
     errs |-> <<>>,
     result |-> "running"]

\* Vec::push as a slip would have it: the element goes to the front
Vec_push_front(v, x) == <<x>> \o v

\* Vec::push
Vec_push(v, x) == Append(v, x)

\* Vec::remove as a slip would have it: the element stays
Vec_remove_nothing(v, pos) == v

\* Vec::remove and Vec::insert at a position counted from 0
Vec_remove(v, pos) == SubSeq(v, 1, pos) \o SubSeq(v, pos + 2, Len(v))

\* Vec::insert as a slip would have it: the element goes to the end
Vec_push_back(v, pos, x) == Append(v, x)

Vec_insert(v, pos, x) == SubSeq(v, 1, pos) \o <<x>> \o SubSeq(v, pos + 1, Len(v))

\* Dict::insert as a slip would have it: the first value of a key is kept
Dict_insert_keeps_first(map, key, value) ==
    IF map[key] # NoPos THEN map ELSE [map EXCEPT ![key] = value]

\* Dict::insert: the value of the key is replaced
Dict_insert(map, key, value) == [map EXCEPT ![key] = value]

\* LowerError::no_var_error as a slip would have it: the place is lost
no_var_error_unplaced(loc, name, similar_name) ==
    [kind |-> "NameError",
     loc |-> NoPos,
     name |-> name,
     hint |-> "exists a similar name variable: "
                  \o "<HINT>" \o similar_name \o "<RESET>"]

\* def_root_pos_map.keys(): the registered names, in an order the Dict
\* chooses
KeyOrders(map) ==
    LET keys == {n \in DOMAIN map : map[n] # NoPos}
    IN  {o \in [1 .. Cardinality(keys) -> keys] :
            \A i, j \in 1 .. Cardinality(keys) : o[i] = o[j] => i = j}

\* the fold as a slip would have it: only the first key is listed
fold_keys_first_only(keys) ==
    IF Len(keys) = 0 THEN "" ELSE keys[1] \o ","

\* keys.fold("".to_string(), |acc, key| acc + &key[..] + ",")
RECURSIVE fold_keys(_)
fold_keys(keys) ==
    IF Len(keys) = 0 THEN ""
    ELSE fold_keys(SubSeq(keys, 1, Len(keys) - 1)) \o keys[Len(keys)] \o ","

\* the ErrorKind each constructor of LowerError and LowerWarning hands to
\* ErrorCore::new; module_env_error goes through file_error
ErrorKinds ==
    [syntax_error |-> "SyntaxError",
     unused_expr_warning |-> "UnusedWarning",
     duplicate_decl_error |-> "NameError",
     duplicate_definition_error |-> "NameError",
     violate_decl_error |-> "TypeError",
     no_var_error |-> "NameError",
     access_before_def_error |-> "NameError",
     access_deleted_var_error |-> "NameError",
     no_type_error |-> "NameError",
     type_not_found |-> "NameError",
     no_attr_error |-> "AttributeError",
     singular_no_attr_error |-> "AttributeError",
     reassign_error |-> "AssignError",
     del_error |-> "NameError",
     visibility_error |-> "VisibilityError",
     override_error |-> "NameError",
     inheritance_error |-> "InheritanceError",
     file_error |-> "IoError",
     module_env_error |-> "IoError",
     import_error |-> "ImportError",
     inner_typedef_error |-> "TypeError",
     declare_error |-> "SyntaxError",
     invalid_type_cast_error |-> "TypeError",
     unused_warning |-> "UnusedWarning",
     union_return_type_warning |-> "TypeWarning",
     builtin_exists_warning |-> "NameWarning"]

\* LowerError::no_var_error called with Some(similar_name): the kind, the
\* place, the name that was not found and the hint, in which StyledStr puts
\* the list between its colour marks
no_var_error(loc, name, similar_name) ==
    [kind |-> ErrorKinds.no_var_error,
     loc |-> loc,
     name |-> name,
     hint |-> "exists a similar name variable: "
                  \o "<HINT>" \o similar_name \o "<RESET>"]

\* one turn of the loop of link: the first chunk is popped and handled; keys
\* is the order in which the position map yields its keys
link_chunk(l, keys) ==
    LET chunk == Head(l.module)
        popped == [l EXCEPT !.module = Tail(l.module)]
    IN  IF chunk.kind = "Def"
        THEN IF chunk.callee \in ClassCallees
             THEN [popped EXCEPT
                      !.def_root_pos_map =
                          Dict_insert(l.def_root_pos_map, chunk.name, Len(l.new)),
                      !.new = Vec_push(l.new, ClassDef(chunk, <<>>))]
             ELSE [popped EXCEPT !.new = Vec_push(l.new, chunk)]
        ELSE IF chunk.kind = "Methods"
        THEN IF chunk.simple
             THEN LET pos == l.def_root_pos_map[chunk.name]
                  IN  IF pos # NoPos
                      THEN LET removed == l.new[pos + 1]
                               class_def == ClassDef(removed.def,
                                                Vec_push(removed.methods_list, chunk))
                           IN  IF removed.kind = "ClassDef"
                               THEN [popped EXCEPT
                                        !.new = Vec_insert(Vec_remove(l.new, pos),
                                                           pos, class_def)]
                               ELSE [popped EXCEPT !.result = "panic"]
                      ELSE [popped EXCEPT
                               !.errs = Vec_push(l.errs,
                                   no_var_error(chunk.id, chunk.name,
                                                fold_keys(keys)))]
             ELSE [popped EXCEPT !.result = "panic"]
        ELSE [popped EXCEPT !.new = Vec_push(l.new, chunk)]

Init ==
    /\ cells = [c \in Cells |-> Null]
    /\ UNBOUND_ID = 0
    /\ journal = [c \in Cells |-> <<Null>>]
    /\ last = Last("init", NoCell, "Null", NoArg, "ok")
    /\ held = Uninited
    /\ linker = Linker_new(<<>>)
    /\ errors = <<>>

\* journal after an operation on cell c took the heap from h to h2
JournalAfter(op, c, h, h2) ==
    [d \in Cells |->
        IF h2[d] = h[d] THEN journal[d]
        ELSE IF d = c /\ op \in {"undoable_link", "forced_undoable_link"}
        THEN Append(journal[d], h2[d])
        ELSE IF d = c /\ op = "undo" /\ Len(journal[d]) > 1
        THEN SubSeq(journal[d], 1, Len(journal[d]) - 1)
        ELSE <<h2[d]>>]

\* an operation on an existing cell: r is what the method returned
Step(op, c, arg, r) ==
    /\ Alive
    /\ cells' = r.h
    /\ journal' = JournalAfter(op, c, cells, r.h)
    /\ last' = Last(op, c, cells[c].kind, arg, r.out)
    /\ UNCHANGED <<held, linker, errors>>

\* a constructor that puts what it built in a fresh cell
Alloc(op, b) ==
    /\ Alive
    /\ FreeSlots # {}
    /\ b.id <= MaxId
    /\ cells' = [cells EXCEPT ![NextSlot] = b.kind]
    /\ journal' = [journal EXCEPT ![NextSlot] = <<b.kind>>]
    /\ last' = Last(op, NextSlot, "Null", NoArg, "ok")
    /\ UNBOUND_ID' = b.id
    /\ UNCHANGED <<held, linker, errors>>

NewUnbound ==
    \E lev \in Levels, con \in ConstraintInputs :
        Alloc("new_unbound", Free_new_unbound(UNBOUND_ID, lev, con))

NewNamedUnbound ==
    \E name \in Names, lev \in Levels, con \in ConstraintInputs :
        Alloc("new_named_unbound",
              Free_new_named_unbound(UNBOUND_ID, name, lev, con))

Detach ==
    \E c \in Allocated(cells) :
        IF is_linked(cells, c)
        THEN Step("detach", c, NoArg, Panic(cells)) /\ UNCHANGED UNBOUND_ID
        ELSE Alloc("detach", detach(UNBOUND_ID, cells[c]))

LinkOp(c, to) ==
    Step("link", c, ToArg(c, to), link(cells, c, to)) /\ UNCHANGED UNBOUND_ID

Link == \E c \in Allocated(cells) : \E to \in ToInputs(c) : LinkOp(c, to)

ForcedLink ==
    \E c \in Allocated(cells) : \E to \in ToInputs(c) :
        /\ Step("forced_link", c, NoArg, forced_link(cells, c, to))
        /\ UNCHANGED UNBOUND_ID

UndoableLinkOp(c, to) ==
    /\ Outstanding(cells) < MaxUndo
    /\ Step("undoable_link", c, NoArg, undoable_link(cells, c, to))
    /\ UNCHANGED UNBOUND_ID

UndoableLink == \E c \in Allocated(cells) : \E to \in ToInputs(c) : UndoableLinkOp(c, to)

ForcedUndoableLink ==
    \E c \in Allocated(cells) : \E to \in ToInputs(c) :
        /\ Outstanding(cells) < MaxUndo
        /\ Step("forced_undoable_link", c, NoArg,
                forced_undoable_link(cells, c, to))
        /\ UNCHANGED UNBOUND_ID

Undo ==
    \E c \in Allocated(cells) :
        Step("undo", c, NoArg, undo(cells, c)) /\ UNCHANGED UNBOUND_ID

Replace ==
    \E c \in Allocated(cells), k \in KindInputs :
        Step("replace", c, NoArg, replace(cells, c, k)) /\ UNCHANGED UNBOUND_ID

ForceReplace ==
    \E c \in Allocated(cells), k \in KindInputs :
        /\ Step("force_replace", c, NoArg, force_replace(cells, c, k))
        /\ UNCHANGED UNBOUND_ID

\* replace(FreeKind::new_unbound(lev, con)): the argument draws a fresh id
ReplaceNewUnbound ==
    \E c \in Allocated(cells), lev \in Levels, con \in ConstraintInputs :
        LET b == FreeKind_new_unbound(UNBOUND_ID, lev, con)
        IN  /\ b.id <= MaxId
            /\ Step("replace_new_unbound", c, NoArg, replace(cells, c, b.kind))
            /\ UNBOUND_ID' = b.id

UpdateConstraintOp(c, con, flag) ==
    /\ Step("update_constraint", c, IF flag THEN "true" ELSE "false",
            update_constraint(cells, c, con, flag, StackDepth))
    /\ UNCHANGED UNBOUND_ID

UpdateConstraint ==
    \E c \in Allocated(cells), flag \in BOOLEAN :
        \E con \in UpdateInputs(c) : UpdateConstraintOp(c, con, flag)

\* update_constraint(bound, true), as the instantiation pass calls it
Bound ==
    \E c \in Allocated(cells) :
        \E con \in BoundInputs(c) : UpdateConstraintOp(c, con, TRUE)

\* inference gives cell c both bounds at once: each can name c or another
\* cell
Sandwich ==
    \E c \in Allocated(cells) :
        \E sub \in {Never} \cup {FreeVar(d) : d \in Allocated(cells)},
           sup \in {Obj} \cup {Poly("Add", FreeVar(d)) : d \in Allocated(cells)} :
            UpdateConstraintOp(c, new_sandwiched(sub, sup), TRUE)

SetLevelOp(c, lvl) ==
    /\ Step("set_level", c, NoArg, set_level(cells, c, lvl, StackDepth))
    /\ UNCHANGED UNBOUND_ID

SetLevel == \E c \in Allocated(cells), lvl \in SetLevels : SetLevelOp(c, lvl)

LowerOp(c, lvl) ==
    /\ Step("lower", c, NoArg, lower(cells, c, lvl))
    /\ UNCHANGED UNBOUND_ID

Lower == \E c \in Allocated(cells), lvl \in SetLevels : LowerOp(c, lvl)

\* lift is not run where it would take a level past MaxLevel
LiftOp(c) ==
    /\ LET cur == level(cells, c, StackDepth)
       IN  cur \in SetLevels => saturating_add_1(cur) \in SetLevels
    /\ Step("lift", c, NoArg, lift(cells, c))
    /\ UNCHANGED UNBOUND_ID

Lift == \E c \in Allocated(cells) : LiftOp(c)

GeneralizeOp(c) ==
    /\ Step("generalize", c, NoArg, generalize(cells, c))
    /\ UNCHANGED UNBOUND_ID

Generalize == \E c \in Allocated(cells) : GeneralizeOp(c)

\* what `last` keeps of the right-hand side of a comparison
OtherArg(a, b) == IF a = b THEN "self" ELSE "other"

EqOp(a, b) ==
    /\ Step("eq", a, OtherArg(a, b), Free_eq(cells, a, b, StackDepth))
    /\ UNCHANGED UNBOUND_ID

Eq == \E a, b \in Allocated(cells) : EqOp(a, b)

StructuralEq ==
    \E a, b \in Allocated(cells) :
        /\ Step("structural_eq", a, OtherArg(a, b),
                Free_structural_eq(cells, a, b, StackDepth))
        /\ UNCHANGED UNBOUND_ID

Hash ==
    \E c \in Allocated(cells) :
        /\ Step("hash", c, NoArg, Free_hash(cells, c, StackDepth))
        /\ UNCHANGED UNBOUND_ID

\* the terms constraints are built from
BoundTerms ==
    {Never, Obj, TypeT, IntT, Poly("Add", IntT)}
        \cup {FreeVar(d) : d \in Allocated(cells)}

\* a cell resolved to Type or to Int
LinkToTerm ==
    \E c \in Allocated(cells) : \E t \in {TypeT, IntT} :
        LinkOp(c, ToRef(t, NoCell, "owned"))

\* a constructor of Constraint returned con to its caller
BuildOp(op, con) ==
    /\ Alive
    /\ held' = IF con = ConstraintOverflow THEN held ELSE con
    /\ last' = Last(op, NoCell, "Null", NoArg,
                    IF con = ConstraintOverflow THEN "overflow" ELSE "ok")
    /\ UNCHANGED <<cells, UNBOUND_ID, journal, linker, errors>>

NewTypeOfOp(t) == BuildOp("new_type_of", new_type_of(cells, t))
NewTypeOf == \E t \in BoundTerms : NewTypeOfOp(t)

NewSubtypeOfOp(sup) == BuildOp("new_subtype_of", new_subtype_of(sup))
NewSubtypeOf == \E sup \in BoundTerms : NewSubtypeOfOp(sup)

NewSupertypeOfOp(sub) == BuildOp("new_supertype_of", new_supertype_of(sub))
NewSupertypeOf == \E sub \in BoundTerms : NewSupertypeOfOp(sub)

NewSandwiched ==
    \E sub \in {Never, IntT} : \E sup \in {Obj, IntT} :
        BuildOp("new_sandwiched", new_sandwiched(sub, sup))

\* an accessor of Constraint was called on the constraint in hand
ReadOp(op, got) ==
    /\ Alive
    /\ last' = Last(op, NoCell, "Null", NoArg,
                    IF got = Null THEN "none" ELSE "some")
    /\ UNCHANGED <<cells, UNBOUND_ID, journal, held, linker, errors>>

Get ==
    \/ ReadOp("get_type", con_get_type(held))
    \/ ReadOp("get_sub", con_get_sub(held))
    \/ ReadOp("get_super", con_get_super(held))
    \/ ReadOp("get_sub_sup", con_get_sub_sup(held))

\* the first cell of a heap, built by a constructor
FirstCell == FreeSlots = Cells /\ (NewUnbound \/ NewNamedUnbound)

\* when FirstCell is the only constructor, every cell but the first is built
\* by detach, from a cell in an earlier slot
DetachedFrom(d, o) == o < d

\* link and undoable_link on a detached cell, in the state detach built it
LinkDetached ==
    \E d, o \in Allocated(cells) :
        /\ DetachedFrom(d, o)
        /\ KindIsUnbound(cells[d])
        /\ \E to \in ToInputs(d) : LinkOp(d, to)

UndoableLinkDetached ==
    \E d, o \in Allocated(cells) :
        /\ DetachedFrom(d, o)
        /\ KindIsUnbound(cells[d])
        /\ \E to \in ToInputs(d) : UndoableLinkOp(d, to)

\* a turn of the loop as a slip would have it: the loop goes on after a panic
LinkChunk_goes_on ==
    /\ linker.result \in {"running", "panic"}
    /\ linker.module # <<>>
    /\ \E keys \in KeyOrders(linker.def_root_pos_map) :
           linker' = link_chunk(linker, keys)
    /\ UNCHANGED <<cells, UNBOUND_ID, journal, last, held, errors>>

\* a turn of the loop; a panic ends the call
LinkChunk ==
    /\ linker.result = "running"
    /\ linker.module # <<>>
    /\ \E keys \in KeyOrders(linker.def_root_pos_map) :
           linker' = link_chunk(linker, keys)
    /\ UNCHANGED <<cells, UNBOUND_ID, journal, last, held, errors>>

\* the end of link as a slip would have it: the module, whatever was found
LinkReturn_always_ok ==
    /\ linker.result = "running"
    /\ linker.module = <<>>
    /\ linker' = [linker EXCEPT !.result = "Ok"]
    /\ UNCHANGED <<cells, UNBOUND_ID, journal, last, held, errors>>

\* the end of link: the module built, or the errors
LinkReturn ==
    /\ linker.result = "running"
    /\ linker.module = <<>>
    /\ linker' = [linker EXCEPT
                     !.result = IF linker.errs = <<>> THEN "Ok" ELSE "Err"]
    /\ UNCHANGED <<cells, UNBOUND_ID, journal, last, held, errors>>

\* link(ast) is called on a module of at most MaxItems chunks
InitLinker ==
    /\ cells = [c \in Cells |-> Null]
    /\ UNBOUND_ID = 0
    /\ journal = [c \in Cells |-> <<Null>>]
    /\ last = Last("init", NoCell, "Null", NoArg, "ok")
    /\ held = Uninited
    /\ \E module \in Modules(MaxItems) : linker = Linker_new(module)
    /\ errors = <<>>

\* SharedCompileErrors::push as a slip would have it: whatever the
\* constructor, the error is a NameError
PushError_as_name_error ==
    /\ Len(errors) < MaxErrors
    /\ \E ctor \in DOMAIN ErrorKinds, loc \in 1 .. 2 :
           /\ errors' = Vec_push(errors, [kind |-> "NameError", loc |-> loc])
           /\ last' = Last(ctor, NoCell, "Null", NoArg, "ok")
    /\ UNCHANGED <<cells, UNBOUND_ID, journal, held, linker>>

\* SharedCompileErrors::push of an error one of the constructors of
\* LowerError or LowerWarning has built for a place of the source
PushError ==
    /\ Len(errors) < MaxErrors
    /\ \E ctor \in DOMAIN ErrorKinds, loc \in 1 .. 2 :
           /\ errors' = Vec_push(errors, [kind |-> ErrorKinds[ctor], loc |-> loc])
           /\ last' = Last(ctor, NoCell, "Null", NoArg, "ok")
    /\ UNCHANGED <<cells, UNBOUND_ID, journal, held, linker>>

\* SharedCompileErrors::take: the errors are handed out and the buffer is
\* left empty
TakeErrors ==
    /\ errors # <<>>
    /\ errors' = <<>>
    /\ last' = Last("take", NoCell, "Null", errors, "ok")
    /\ UNCHANGED <<cells, UNBOUND_ID, journal, held, linker>>

(***************************************************************************)
(* The machines.  Each runs the operations of one part of the interface on  *)
(* the same heap; the callers of the other operations are left out.         *)
(***************************************************************************)
\* committed links and replacement
SpecLink ==
    Init /\ [][\/ NewUnbound
               \/ NewNamedUnbound
               \/ Link
               \/ ForcedLink
               \/ Replace
               \/ ForceReplace]_vars

\* speculative links and their undoing
SpecUndo ==
    Init /\ [][\/ NewUnbound
               \/ NewNamedUnbound
               \/ Link
               \/ UndoableLink
               \/ ForcedUndoableLink
               \/ Undo]_vars

\* the constructors that draw ids
SpecId ==
    Init /\ [][\/ NewUnbound
               \/ NewNamedUnbound
               \/ Detach
               \/ ReplaceNewUnbound
               \/ Link]_vars

\* constraints of generalized cells
SpecCon ==
    Init /\ [][\/ NewUnbound
               \/ NewNamedUnbound
               \/ UpdateConstraint
               \/ Generalize
               \/ SetLevel]_vars

\* constraints of linked and speculatively linked cells
SpecFwd ==
    Init /\ [][\/ NewUnbound
               \/ Link
               \/ UndoableLink
               \/ UpdateConstraint]_vars

\* levels of unbound cells with sandwich bounds
SpecLev ==
    Init /\ [][\/ NewUnbound
               \/ NewNamedUnbound
               \/ Bound
               \/ SetLevel
               \/ Lower
               \/ Lift
               \/ Generalize]_vars

\* the operations that link a cell for the time of a walk, on unbound cells
\* with sandwich bounds
SpecEq ==
    Init /\ [][\/ NewUnbound
               \/ NewNamedUnbound
               \/ Bound
               \/ SetLevel
               \/ Eq
               \/ StructuralEq
               \/ Hash]_vars

\* a cell, the cells detach builds from it, and what is done to them later
SpecDetach ==
    Init /\ [][\/ FirstCell
               \/ Bound
               \/ Detach
               \/ SetLevel
               \/ LinkDetached
               \/ UndoableLinkDetached]_vars

\* the constructors and accessors of Constraint, over linked and unbound cells
SpecBounds ==
    Init /\ [][\/ NewUnbound
               \/ LinkToTerm
               \/ NewTypeOf
               \/ NewSubtypeOf
               \/ NewSupertypeOf
               \/ NewSandwiched
               \/ Get]_vars

\* one pass of the linker over a module
\* levels set on cells whose bounds lead to other cells, linked ones included
SpecWalk == Init /\ [][NewUnbound \/ Bound \/ Link \/ SetLevel]_vars

\* levels set on cells whose two bounds name cells, in cycles
SpecCycle ==
    Init /\ [][\/ NewUnbound
               \/ Sandwich
               \/ SetLevel
               \/ Lower
               \/ Lift
               \/ Generalize]_vars

\* generalized cells among cells whose bounds name cells
SpecGen ==
    Init /\ [][\/ NewUnbound
               \/ Sandwich
               \/ Generalize
               \/ Lift
               \/ Lower
               \/ UpdateConstraint]_vars

\* levels set on cells while they are speculatively linked
SpecHeld ==
    Init /\ [][\/ NewUnbound
               \/ UndoableLink
               \/ Undo
               \/ SetLevel
               \/ Lower
               \/ Lift
               \/ Generalize]_vars

\* the constraints a caller can build: the three variants of Constraint,
\* TypeOf(Type) as the variant itself and in the form new_type_of gives it
AnyConstraints ==
    {Uninited, TypeOf(IntT), TypeOf(TypeT), new_type_of(cells, TypeT)}

NewUnboundOf ==
    \E lev \in Levels, con \in AnyConstraints :
        Alloc("new_unbound", Free_new_unbound(UNBOUND_ID, lev, con))

NewNamedUnboundOf ==
    \E name \in Names, lev \in Levels, con \in AnyConstraints :
        Alloc("new_named_unbound",
              Free_new_named_unbound(UNBOUND_ID, name, lev, con))

\* == and hash over cells of every constraint
SpecRel == Init /\ [][NewUnboundOf \/ NewNamedUnboundOf \/ Eq \/ Hash]_vars

SpecErrors == Init /\ [][PushError \/ TakeErrors]_vars

SpecLinker == InitLinker /\ [][LinkChunk \/ LinkReturn]_vars

(***************************************************************************)
(* Properties.                                                              *)
(***************************************************************************)
JournalTop(c) == journal[c][Len(journal[c])]

\* C1: undoable_link(t) then undo() on an Unbound or NamedUnbound cell leaves
\* the cell equal to its state before the two calls (variant, id or name,
\* level, constraint); in between is_linked() holds, afterwards is_unbound().
C1_UndoInvertsUndoableLink ==
    \A c \in Cells :
        /\ (/\ last.cell = c
            /\ last.op = "undoable_link"
            /\ last.out = "ok"
            /\ last.pre \in {"Unbound", "NamedUnbound"})
           => /\ is_linked(cells, c)
              /\ Len(journal[c]) = 2
              /\ journal[c][1].kind = last.pre
        /\ (/\ last.cell = c
            /\ last.op = "undo"
            /\ last.out = "ok"
            /\ Len(journal[c]) = 1
            /\ KindIsUnbound(journal[c][1]))
           => /\ cells[c] = journal[c][1]
              /\ is_unbound(cells, c)
              /\ ~is_linked(cells, c)

\* an unbound cell was linked speculatively and the link was undone
C1_Witness ==
    /\ last.op = "undo"
    /\ last.out = "ok"
    /\ last.cell \in Cells
    /\ Len(journal[last.cell]) = 1
    /\ cells[last.cell].kind = "Unbound"
    /\ cells[last.cell].lev = GENERIC_LEVEL

\* C2: undoable_link and undo form a stack: after n undoable links and k
\* undos the cell is in the state it had right after the (n-k)-th undoable
\* link, and after n undos in the state it started in.
C2_UndoStack ==
    \A c \in Cells :
        /\ Len(journal[c]) = UndoDepth(cells[c]) + 1
        /\ cells[c] = JournalTop(c)

\* two undoable links were stacked on a cell and the top one was undone
C2_Witness ==
    /\ last.op = "undo"
    /\ last.out = "ok"
    /\ last.cell \in Cells
    /\ Len(journal[last.cell]) = 2
    /\ cells[last.cell].kind = "UndoableLinked"
    /\ KindIsUnbound(cells[last.cell].previous)

\* C3: undo() on a cell that is not UndoableLinked panics and leaves the
\* cell as it was; on an UndoableLinked cell it succeeds, so after one
\* undoable_link on an unbound cell the second undo panics.
C3_UndoPanicsUnlessUndoable ==
    [][\A c \in Cells :
        (last'.op = "undo" /\ last'.cell = c)
            => IF is_undoable_linked(cells, c)
               THEN /\ last'.out = "ok"
                    /\ cells'[c] = cells[c].previous
                    /\ KindIsUnbound(cells'[c]) => undo(cells', c) = Panic(cells')
               ELSE /\ last'.out = "panic"
                    /\ cells' = cells]_vars

\* an undo panicked on an unbound cell
C3_Witness ==
    /\ last.op = "undo"
    /\ last.out = "panic"
    /\ last.pre = "Unbound"
    /\ is_unbound(cells, last.cell)

\* C4: link(t) on an Unbound or NamedUnbound cell leaves it Linked(t):
\* is_linked() holds, is_unbound() and is_undoable_linked() do not, and
\* crack() yields t.
C4_LinkLinksUnbound ==
    [][\A c \in Allocated(cells) : \A to \in ToInputs(c) :
        (LinkOp(c, to) /\ is_unbound(cells, c))
            => /\ last'.out = "ok"
               /\ cells'[c] = Linked(to.val)
               /\ is_linked(cells', c)
               /\ ~is_unbound(cells', c)
               /\ ~is_undoable_linked(cells', c)
               /\ crack(cells', c) = to.val
               /\ \A d \in Cells \ {c} : cells'[d] = cells[d]]_vars

\* a named unbound cell was linked to a term
C4_Witness ==
    /\ last.op = "link"
    /\ last.out = "ok"
    /\ last.pre = "NamedUnbound"
    /\ cells[last.cell] = Linked(IntT)

\* C5: link(t) on a cell that is Linked(t'), with t the very term stored in
\* the cell, is a no-op: it returns and the state is unchanged.
C5_SelfLinkIsNoOp ==
    [][\A c \in Allocated(cells) : \A to \in ToInputs(c) :
        (LinkOp(c, to) /\ cells[c].kind = "Linked" /\ to.at = c)
            => /\ last'.out = "ok"
               /\ cells' = cells]_vars

\* a linked cell was linked again to the term it holds, borrowed by crack()
C5_Witness ==
    /\ last.op = "link"
    /\ last.pre = "Linked"
    /\ last.arg = "crack"
    /\ last.out = "ok"

\* C6: no cell is ever Linked to a FreeVar that wraps the cell itself.
C6_NeverLinkedToSelf ==
    \A c \in Cells : cells[c].kind = "Linked" => cells[c].t # FreeVar(c)

\* C7: undoable_link(to) and forced_undoable_link(to) never succeed when to
\* is a reference to the receiver itself: they panic and leave the cell as
\* it was, in every state of the cell.
C7_UndoableLinkToSelfPanics ==
    \A c \in Cells :
        (/\ last.cell = c
         /\ last.op \in {"undoable_link", "forced_undoable_link"}
         /\ cells[c].kind = "UndoableLinked"
         /\ cells[c].t = FreeVar(c))
            => last.out = "panic"

\* the ids held by a FreeKind, its saved states included
RECURSIVE KindIds(_)
KindIds(k) ==
    IF k.kind = "Unbound" THEN {k.id}
    ELSE IF k.kind = "UndoableLinked" THEN KindIds(k.previous)
    ELSE {}

HeapIds(h) == UNION {KindIds(h[c]) : c \in Cells}

\* C8: the ids handed out by new_unbound, FreeKind::new_unbound and detach
\* of an anonymous cell are strictly increasing in allocation order, so no
\* two cells share an id and none is reused; a NamedUnbound takes no id.
C8_FreshIds ==
    [][/\ \A i \in HeapIds(cells') \ HeapIds(cells) :
            /\ i = UNBOUND_ID'
            /\ i > UNBOUND_ID
            /\ \A j \in HeapIds(cells) : j < i
       /\ HeapIds(cells) \subseteq 1..UNBOUND_ID
       /\ \A c, d \in Cells : c # d => KindIds(cells'[c]) \cap KindIds(cells'[d]) = {}
       /\ (last'.op \in {"new_unbound", "replace_new_unbound"}
             \/ (last'.op = "detach" /\ last'.pre = "Null"
                   /\ cells'[last'.cell].kind = "Unbound"))
            => /\ UNBOUND_ID' = UNBOUND_ID + 1
               /\ cells'[last'.cell].kind = "Unbound"
               /\ cells'[last'.cell].id = UNBOUND_ID'
       /\ (last'.op = "new_named_unbound"
             \/ (last'.op = "detach" /\ cells'[last'.cell].kind = "NamedUnbound"))
            => UNBOUND_ID' = UNBOUND_ID]_vars

\* detach of an anonymous cell drew the second id
C8_Witness ==
    /\ last.op = "detach"
    /\ last.out = "ok"
    /\ last.pre = "Null"
    /\ cells[last.cell].kind = "Unbound"
    /\ cells[last.cell].id = 2
    /\ \E d \in Cells : cells[d].kind = "Unbound" /\ cells[d].id = 1

\* C9: on an unbound cell at GENERIC_LEVEL update_constraint(c', false) is
\* rejected and changes nothing, update_constraint(c', true) installs c';
\* below GENERIC_LEVEL both install c'.
C9_GeneralizedIsImmutable ==
    [][\A c \in Allocated(cells) : \A flag \in BOOLEAN : \A con \in UpdateInputs(c) :
        (/\ is_unbound(cells, c)
         /\ last'.op = "update_constraint"
         /\ last'.cell = c
         /\ UpdateConstraintOp(c, con, flag))
            => IF cells[c].lev = GENERIC_LEVEL /\ ~flag
               THEN /\ last'.out = "rejected"
                    /\ cells' = cells
               ELSE /\ last'.out = "ok"
                    /\ cells' = [cells EXCEPT ![c].constraint = con]]_vars

\* a generalized cell refused a constraint that differs from its own
C9_Witness ==
    /\ last.op = "update_constraint"
    /\ last.arg = "false"
    /\ last.out = "rejected"
    /\ last.pre = "Unbound"
    /\ is_unbound(cells, last.cell)
    /\ cells[last.cell].lev = GENERIC_LEVEL
    /\ cells[last.cell].constraint = new_subtype_of(Poly("Add", FreeVar(last.cell)))

\* C10: update_constraint on a Linked or UndoableLinked cell is forwarded to
\* the linked term and leaves the cell's own state unchanged: the same term,
\* and for UndoableLinked the same saved state with its constraint.
C10_LinkedForwards ==
    [][\A c \in Allocated(cells) :
        (is_linked(cells, c) /\ last'.op = "update_constraint" /\ last'.cell = c)
            => \A flag \in BOOLEAN : \A con \in UpdateInputs(c) :
                UpdateConstraintOp(c, con, flag)
                    => /\ cells'[c] = cells[c]
                       /\ crack(cells, c).tag # "FreeVar"
                            => (cells' = cells /\ last'.out = "ok")
                       /\ (crack(cells, c).tag = "FreeVar"
                             /\ is_unbound(cells, crack(cells, c).cell))
                            => LET d == crack(cells, c).cell
                               IN  IF cells[d].lev = GENERIC_LEVEL /\ ~flag
                                   THEN cells' = cells /\ last'.out = "rejected"
                                   ELSE /\ cells' = [cells EXCEPT ![d].constraint = con]
                                        /\ last'.out = "ok"]_vars

\* a speculatively linked cell passed a constraint on to the cell it is
\* linked to: the bound names the receiver, so it can only have come from it
C10_Witness ==
    /\ last.op = "update_constraint"
    /\ last.out = "ok"
    /\ last.pre = "UndoableLinked"
    /\ \E c, d \in Cells :
        /\ c # d
        /\ last.cell = c
        /\ cells[c].kind = "UndoableLinked"
        /\ cells[c].t = FreeVar(d)
        /\ is_unbound(cells, d)
        /\ cells[d].constraint = new_subtype_of(Poly("Add", FreeVar(c)))

\* C11: set_level(l) on an Unbound or NamedUnbound cell, whatever its
\* constraint (sandwich bounds that name the cell itself included), leaves
\* the cell unbound at level l; generalize() leaves it at GENERIC_LEVEL with
\* is_generalized() true.
C11_SetLevelSetsLevel ==
    [][\A c \in Allocated(cells) :
        (is_unbound(cells, c) /\ last'.cell = c)
            => /\ \A lvl \in SetLevels :
                    (last'.op = "set_level" /\ SetLevelOp(c, lvl))
                        => /\ last'.out = "ok"
                           /\ is_unbound(cells', c)
                           /\ cells'[c] = [cells[c] EXCEPT !.lev = lvl]
                           /\ level(cells', c, StackDepth) = lvl
               /\ (last'.op = "generalize" /\ GeneralizeOp(c))
                    => /\ last'.out = "ok"
                       /\ is_unbound(cells', c)
                       /\ level(cells', c, StackDepth) = GENERIC_LEVEL
                       /\ is_generalized(cells', c)]_vars

\* set_level took a cell to level 1 whose lower bound is the cell itself
C11_Witness ==
    /\ last.op = "set_level"
    /\ last.out = "ok"
    /\ last.cell \in Cells
    /\ is_unbound(cells, last.cell)
    /\ cells[last.cell].lev = 1
    /\ cells[last.cell].constraint = new_supertype_of(FreeVar(last.cell))

\* C12: lower(l) on an unbound cell at level k leaves it at max(k, l): the
\* level is set to l if k < l and nothing changes otherwise, so lower never
\* decreases a level.
C12_LowerIsMax ==
    [][\A c \in Allocated(cells) :
        (is_unbound(cells, c) /\ last'.cell = c /\ last'.op = "lower")
            => \A lvl \in SetLevels :
                LowerOp(c, lvl)
                    => LET k == cells[c].lev
                       IN  /\ last'.out = "ok"
                           /\ cells'[c] =
                                [cells[c] EXCEPT !.lev = IF k < lvl THEN lvl ELSE k]
                           /\ cells'[c].lev >= k
                           /\ k < lvl => cells'[c].lev = lvl
                           /\ k >= lvl => cells' = cells]_vars

\* lower left a cell at level 1 whose upper bound names the cell itself
C12_Witness ==
    /\ last.op = "lower"
    /\ last.out = "ok"
    /\ last.cell \in Cells
    /\ is_unbound(cells, last.cell)
    /\ cells[last.cell].lev = 1
    /\ cells[last.cell].constraint = new_subtype_of(Poly("Add", FreeVar(last.cell)))

\* C13: lift() on an unbound cell at level k leaves it at k + 1 if k is below
\* GENERIC_LEVEL and at GENERIC_LEVEL if k is GENERIC_LEVEL: the addition
\* saturates and never wraps to 0.
C13_LiftSaturates ==
    [][\A c \in Allocated(cells) :
        (is_unbound(cells, c) /\ last'.cell = c /\ last'.op = "lift" /\ LiftOp(c))
            => LET k == cells[c].lev
               IN  /\ last'.out = "ok"
                   /\ cells'[c] =
                        [cells[c] EXCEPT
                            !.lev = IF k = GENERIC_LEVEL THEN GENERIC_LEVEL ELSE k + 1]
                   /\ cells'[c].lev > 0
                   /\ cells'[c].lev >= k]_vars

\* lift was run on a generalized cell with sandwich bounds
C13_Witness ==
    /\ last.op = "lift"
    /\ last.out = "ok"
    /\ last.cell \in Cells
    /\ is_unbound(cells, last.cell)
    /\ cells[last.cell].lev = GENERIC_LEVEL
    /\ con_is_sandwiched(cells[last.cell].constraint)

\* the sandwich bounds of the unbound cell c name c itself, or name a second
\* cell whose sandwich bounds name c
RefersBack(h, c) ==
    /\ KindIsUnbound(h[c])
    /\ con_is_sandwiched(h[c].constraint)
    /\ \/ c \in ConstraintCells(h[c].constraint)
       \/ \E d \in ConstraintCells(h[c].constraint) :
              /\ KindIsUnbound(h[d])
              /\ con_is_sandwiched(h[d].constraint)
              /\ c \in ConstraintCells(h[d].constraint)

\* C14: ==, structural_eq and hash of a cell whose sandwich bounds refer back
\* to the cell, in sub or in sup, directly or through a second cell, return:
\* the walk never runs out of stack.
C14_EqHashTerminate ==
    [][\A c \in Cells :
          (/\ last'.cell = c
           /\ last'.op \in {"eq", "structural_eq", "hash"}
           /\ RefersBack(cells, c))
              => last'.out # "overflow"]_vars

\* t is a named unbound cell whose constraint is a subtype bound that
\* contains t itself
CyclicNamed(h, t) ==
    /\ h[t].kind = "NamedUnbound"
    /\ con_is_sandwiched(h[t].constraint)
    /\ h[t].constraint.sub = Never
    /\ t \in TypeCells(h[t].constraint.sup)

\* u is a named unbound cell with the name, the level and the constraint of t
Twin(h, t, u) ==
    /\ h[u].kind = "NamedUnbound"
    /\ h[u].name = h[t].name
    /\ h[u].lev = h[t].lev
    /\ h[u].constraint = h[t].constraint

\* C15: a named unbound cell t whose subtype bound contains t itself is equal
\* to itself and to every named unbound cell u with the same name, the same
\* level and an equal constraint: t == t and t == u return true.
C15_CyclicEq ==
    [][last'.op = "eq" =>
          \A t, u \in Allocated(cells) :
              (/\ last'.cell = t
               /\ CyclicNamed(cells, t)
               /\ Twin(cells, t, u)
               /\ EqOp(t, u))
                  => last'.out = "true"]_vars

\* t == u returned true for a cyclic t and a second cell u of the same
\* name, level and constraint
C15_Witness ==
    /\ last.op = "eq"
    /\ last.arg = "other"
    /\ last.out = "true"
    /\ \E t, u \in Allocated(cells) :
           /\ t # u
           /\ last.cell = t
           /\ CyclicNamed(cells, t)
           /\ Twin(cells, t, u)

\* C16: hash, ==, structural_eq and set_level undo the link they make for
\* the time of their walk: when one of them returns on an unbound cell with
\* sandwich bounds, the cell is unbound again with its id or name and its
\* constraint, and no cell is left UndoableLinked, whatever was returned.
C16_WalksUndoTheirLink ==
    [][last'.op \in {"hash", "eq", "structural_eq", "set_level"} =>
          \A c \in Allocated(cells) :
              (/\ last'.cell = c
               /\ KindIsUnbound(cells[c])
               /\ con_is_sandwiched(cells[c].constraint)
               /\ Returned(last'))
                  => /\ \A d \in Cells : cells'[d].kind = cells[d].kind
                     /\ IF last'.op = "set_level"
                        THEN [cells'[c] EXCEPT !.lev = cells[c].lev] = cells[c]
                        ELSE cells' = cells]_vars

\* == linked a named cell with sandwich bounds for its walk, found the
\* bounds of the other cell different and returned false with both unbound
C16_Witness ==
    /\ last.op = "eq"
    /\ last.out = "false"
    /\ \E t, u \in Allocated(cells) :
           /\ last.cell = t
           /\ cells[t].kind = "NamedUnbound"
           /\ cells[u].kind = "NamedUnbound"
           /\ cells[t].lev = cells[u].lev
           /\ con_is_sandwiched(cells[t].constraint)
           /\ con_is_sandwiched(cells[u].constraint)
           /\ cells[t].constraint # cells[u].constraint

\* C17: new_type_of(Type) is Sandwiched{Never, Obj}, new_type_of(t) is
\* TypeOf(t) for every other t, and get_type() of the result gives t back:
\* the term itself or, for a variable linked to Type, the Type it equals.
C17_TypeOfRoundTrip ==
    [][last'.op = "new_type_of" =>
          \A t \in BoundTerms :
              NewTypeOfOp(t) =>
                  /\ last'.out = "ok"
                  /\ t = TypeT => held' = Sandwiched(Never, Obj)
                  /\ Type_eq(cells, t, TypeT, StackDepth).out = "false"
                         => held' = TypeOf(t)
                  /\ con_get_type(held') # Null
                  /\ \/ con_get_type(held') = t
                     \/ Type_eq(cells, con_get_type(held'), t, StackDepth).out
                            = "true"]_vars

\* get_type() answered on the canonical form new_type_of built of Type
C17_Witness ==
    /\ last.op = "get_type"
    /\ last.out = "some"
    /\ held = Sandwiched(Never, Obj)
    /\ con_get_type(held) = TypeT

\* C18: get_sub, get_super and get_sub_sup give None for TypeOf and Uninited
\* and the stored bounds for Sandwiched; new_subtype_of(sup) has the bounds
\* (Never, sup) and new_supertype_of(sub) the bounds (sub, Obj); get_type
\* gives None for Uninited and for every Sandwiched but {Never, Obj}.
C18_BoundsAccessors ==
    [][/\ (last'.op \in {"get_sub", "get_super", "get_sub_sup"}
              /\ held.ctag \in {"TypeOf", "Uninited"})
           => /\ last'.out = "none"
              /\ con_get_sub(held) = Null
              /\ con_get_super(held) = Null
              /\ con_get_sub_sup(held) = Null
       /\ (last'.op \in {"get_sub", "get_super", "get_sub_sup"}
              /\ held.ctag = "Sandwiched")
           => /\ last'.out = "some"
              /\ con_get_sub(held) = held.sub
              /\ con_get_super(held) = held.sup
              /\ con_get_sub_sup(held) = <<held.sub, held.sup>>
       /\ \A sup \in BoundTerms :
              NewSubtypeOfOp(sup) => con_get_sub_sup(held') = <<Never, sup>>
       /\ \A sub \in BoundTerms :
              NewSupertypeOfOp(sub) => con_get_sub_sup(held') = <<sub, Obj>>
       /\ (last'.op = "get_type"
              /\ \/ held = Uninited
                 \/ held.ctag = "Sandwiched" /\ held # Sandwiched(Never, Obj))
           => /\ last'.out = "none"
              /\ con_get_type(held) = Null]_vars

\* get_sub_sup answered on a subtype bound of a variable, a constraint on
\* which get_type answers None
C18_Witness ==
    /\ last.op = "get_sub_sup"
    /\ last.out = "some"
    /\ held.ctag = "Sandwiched"
    /\ held.sub = Never
    /\ held.sup.tag = "FreeVar"
    /\ con_get_type(held) = Null

\* C19: detach() of an unbound cell builds a fresh cell with the same name
\* (or a fresh id), level and constraint and leaves the original as it was;
\* a later set_level, link, undoable_link or update_constraint on the
\* detached cell leaves the original cell unchanged, also when the bounds of
\* the detached cell name the original.
C19_DetachSharesNothing ==
    [][/\ (last'.op = "detach" /\ last'.out = "ok")
           => \E o \in Allocated(cells) :
                  LET d == last'.cell
                  IN  /\ cells'[o] = cells[o]
                      /\ cells'[d].kind = cells[o].kind
                      /\ cells'[d].lev = cells[o].lev
                      /\ cells'[d].constraint = cells[o].constraint
                      /\ IF cells[o].kind = "NamedUnbound"
                         THEN cells'[d].name = cells[o].name
                         ELSE cells'[d].id \notin HeapIds(cells)
       /\ (/\ last'.op \in {"set_level", "link", "undoable_link",
                             "update_constraint"}
           /\ last'.out = "ok")
           => \A o, d \in Allocated(cells) :
                  (/\ DetachedFrom(d, o)
                   /\ last'.cell = d
                   /\ KindIsUnbound(cells[d]))
                      => cells'[o] = cells[o]]_vars

\* the chunks of a sequence that are not Methods blocks, in order
RECURSIVE NonMethods(_)
NonMethods(chunks) ==
    IF chunks = <<>> THEN <<>>
    ELSE IF Head(chunks).kind = "Methods" THEN NonMethods(Tail(chunks))
    ELSE <<Head(chunks)>> \o NonMethods(Tail(chunks))

\* the chunk an output item was made of
Unwrap(item) == IF item.kind = "ClassDef" THEN item.def ELSE item

\* C20: at every point of the pass, and so in the module link returns, the
\* output holds exactly the chunks handled so far that are not Methods
\* blocks, in source order, each once: a class definition wrapped in a
\* ClassDef and every other chunk as it was.  Absorbing a Methods block
\* moves, removes and doubles nothing.
C20_SourceOrder ==
    LET handled == SubSeq(linker.input, 1,
                          Len(linker.input) - Len(linker.module))
        kept == NonMethods(handled)
    IN  /\ Len(linker.new) = Len(kept)
        /\ \A i \in 1 .. Len(linker.new) :
               /\ Unwrap(linker.new[i]) = kept[i]
               /\ linker.new[i].kind = "ClassDef"
                      <=> (kept[i].kind = "Def" /\ kept[i].callee \in ClassCallees)

\* link returned a module in which a class that is followed by another
\* chunk has absorbed the Methods block that came after both
C20_Witness ==
    /\ linker.result = "Ok"
    /\ Len(linker.input) = 3
    /\ linker.input[3].kind = "Methods"
    /\ Len(linker.new) = 2
    /\ linker.new[1].kind = "ClassDef"
    /\ linker.new[1].methods_list = <<linker.input[3]>>
    /\ linker.new[2] = linker.input[2]

\* the loop of link is about to handle a Methods block that names, by a
\* simple name, a class the position map has
AbsorbsNext(l) ==
    /\ l.result = "running"
    /\ l.module # <<>>
    /\ Head(l.module).kind = "Methods"
    /\ Head(l.module).simple
    /\ l.def_root_pos_map[Head(l.module).name] # NoPos

\* C21: a Methods block whose simple target name is in the position map is
\* appended to the methods list of the ClassDef of that name at the
\* registered position; that ClassDef keeps its place and its definition,
\* every other output item and the errors are left as they were; and the
\* methods list of every ClassDef holds the blocks that named it in source
\* order.
C21_MethodAbsorption ==
    /\ [][AbsorbsNext(linker) =>
             LET methods == Head(linker.module)
                 at == linker.def_root_pos_map[methods.name] + 1
             IN  /\ Len(linker'.new) = Len(linker.new)
                 /\ linker'.new[at].kind = "ClassDef"
                 /\ linker'.new[at].def = linker.new[at].def
                 /\ linker'.new[at].def.name = methods.name
                 /\ linker'.new[at].methods_list
                        = linker.new[at].methods_list \o <<methods>>
                 /\ \A i \in 1 .. Len(linker.new) :
                        i # at => linker'.new[i] = linker.new[i]
                 /\ linker'.errs = linker.errs
                 /\ linker'.result = "running"]_vars
    /\ [](\A i \in 1 .. Len(linker.new) :
             linker.new[i].kind = "ClassDef" =>
                 LET list == linker.new[i].methods_list
                 IN  \A j, k \in 1 .. Len(list) :
                         /\ list[j].name = linker.new[i].def.name
                         /\ j < k => list[j].id < list[k].id)

\* link returned a module in which one class has absorbed two Methods blocks
C21_Witness ==
    /\ linker.result = "Ok"
    /\ \E i \in 1 .. Len(linker.new) :
           /\ linker.new[i].kind = "ClassDef"
           /\ Len(linker.new[i].methods_list) = 2

\* the lists that name every member of S once, each followed by a comma
RECURSIVE CommaLists(_)
CommaLists(S) ==
    IF S = {} THEN {""}
    ELSE UNION {{n \o "," \o rest : rest \in CommaLists(S \ {n})} : n \in S}

\* the loop of link is about to handle a Methods block that names, by a
\* simple name, a class the position map does not have
RejectsNext(l) ==
    /\ l.result = "running"
    /\ l.module # <<>>
    /\ Head(l.module).kind = "Methods"
    /\ Head(l.module).simple
    /\ l.def_root_pos_map[Head(l.module).name] = NoPos

\* C22: a Methods block whose simple target name is not registered adds
\* exactly one diagnostic to the errors: of kind NameError, located at the
\* block's target, with a hint that lists every class name registered at
\* that point, each followed by a comma (in an order the map chooses).  The
\* output and the position map are left as they were and the pass goes on
\* with the next chunk.
C22_UnknownClassError ==
    [][RejectsNext(linker) =>
          LET methods == Head(linker.module)
              registered == {n \in TargetNames :
                                linker.def_root_pos_map[n] # NoPos}
              error == linker'.errs[Len(linker'.errs)]
          IN  /\ Len(linker'.errs) = Len(linker.errs) + 1
              /\ SubSeq(linker'.errs, 1, Len(linker.errs)) = linker.errs
              /\ error.kind = "NameError"
              /\ error.loc = methods.id
              /\ error.name = methods.name
              /\ \E list \in CommaLists(registered) :
                     error.hint = "exists a similar name variable: "
                                      \o "<HINT>" \o list \o "<RESET>"
              /\ linker'.new = linker.new
              /\ linker'.def_root_pos_map = linker.def_root_pos_map
              /\ linker'.module = Tail(linker.module)
              /\ linker'.result = "running"]_vars

\* link returned the error of a Methods block that named an unknown class
\* after two classes had been registered
C22_Witness ==
    /\ linker.result = "Err"
    /\ Len(linker.errs) = 1
    /\ linker.errs[1].loc = 3
    /\ linker.errs[1].name = "C"
    /\ \A n \in ClassNames : linker.def_root_pos_map[n] # NoPos

\* the places in a module of the Methods blocks that name, by a simple name,
\* a class no earlier chunk defines
UnknownTargets(module) ==
    {i \in 1 .. Len(module) :
        /\ module[i].kind = "Methods"
        /\ module[i].simple
        /\ ~ \E j \in 1 .. i - 1 :
                 /\ module[j].kind = "Def"
                 /\ module[j].callee \in ClassCallees
                 /\ module[j].name = module[i].name}

\* C23: link returns Ok with the module it built exactly when it has
\* accumulated no diagnostic, and Err with the accumulated errors otherwise;
\* the errors are as many as the Methods blocks of the module that named an
\* unknown class.
C23_OkIffNoErrors ==
    linker.result \in {"Ok", "Err"} =>
        /\ linker.module = <<>>
        /\ linker.result = "Ok" <=> linker.errs = <<>>
        /\ Len(linker.errs) = Cardinality(UnknownTargets(linker.input))

\* link returned two errors for a module that also defines a class
C23_Witness ==
    /\ linker.result = "Err"
    /\ Len(linker.errs) = 2
    /\ Len(linker.new) = 1
    /\ linker.new[1].kind = "ClassDef"

\* the places where a Methods block sits in the methods lists of the output
AbsorbedAt(l, methods) ==
    {<<i, j>> \in (1 .. Len(l.new)) \X (1 .. MaxItems + 1) :
        /\ l.new[i].kind = "ClassDef"
        /\ j <= Len(l.new[i].methods_list)
        /\ l.new[i].methods_list[j] = methods}

\* C24: while the pass runs and when it has returned, every Methods block
\* handled so far sits in the methods list of exactly one ClassDef, once, and
\* has no diagnostic, or has exactly one diagnostic and sits in no methods
\* list; and no output item is a Methods block.
C24_MethodsAbsorbedOrReported ==
    linker.result # "panic" =>
        /\ \A i \in 1 .. Len(linker.input) - Len(linker.module) :
               linker.input[i].kind = "Methods" =>
                   Cardinality(AbsorbedAt(linker, linker.input[i]))
                       + Cardinality({e \in 1 .. Len(linker.errs) :
                                         linker.errs[e].loc = i}) = 1
        /\ \A i \in 1 .. Len(linker.new) : linker.new[i].kind # "Methods"

\* link returned after it absorbed one Methods block and reported another
C24_Witness ==
    /\ linker.result = "Err"
    /\ Len(linker.errs) = 1
    /\ \E i \in 1 .. Len(linker.new) :
           /\ linker.new[i].kind = "ClassDef"
           /\ Len(linker.new[i].methods_list) = 1

\* C25: when the target of a Methods block is not a simple name, link
\* panics at that block: nothing is added to the output or to the errors,
\* and from then on the call does nothing more, so the chunks after the
\* block are never handled and neither Ok nor Err is returned.
C25_NonSimpleTargetPanics ==
    /\ [][(/\ linker.result = "running"
            /\ linker.module # <<>>
            /\ Head(linker.module).kind = "Methods"
            /\ ~ Head(linker.module).simple)
              => /\ linker'.result = "panic"
                 /\ linker'.new = linker.new
                 /\ linker'.errs = linker.errs]_vars
    /\ [][linker.result = "panic" => linker' = linker]_vars

\* link panicked at a Methods block with chunks left behind it
C25_Witness ==
    /\ linker.result = "panic"
    /\ linker.module # <<>>
    /\ LET at == Len(linker.input) - Len(linker.module)
       IN  /\ linker.input[at].kind = "Methods"
           /\ ~ linker.input[at].simple

\* C26: a definition whose body starts with a call of Class, Inherit or
\* Inheritable is appended as a ClassDef with an empty methods list and its
\* name is registered at the length the output had; every other definition
\* and every other chunk that is not a Methods block is appended as it is
\* and the position map is left as it was.  Neither adds an error.
C26_ClassRecognition ==
    [][(/\ linker.result = "running"
        /\ linker.module # <<>>
        /\ Head(linker.module).kind # "Methods")
          => LET chunk == Head(linker.module)
                 is_class == /\ chunk.kind = "Def"
                             /\ chunk.callee \in {"Class", "Inherit", "Inheritable"}
             IN  /\ is_class =>
                        /\ linker'.new
                               = linker.new
                                    \o <<[kind |-> "ClassDef", def |-> chunk,
                                          methods_list |-> <<>>]>>
                        /\ linker'.def_root_pos_map
                               = [linker.def_root_pos_map
                                     EXCEPT ![chunk.name] = Len(linker.new)]
                 /\ ~ is_class =>
                        /\ linker'.new = linker.new \o <<chunk>>
                        /\ linker'.def_root_pos_map = linker.def_root_pos_map
                 /\ linker'.errs = linker.errs
                 /\ linker'.result = "running"]_vars

\* link returned a module with a class made by Inherit, registered where it
\* stands, behind a definition that is no class
C26_Witness ==
    /\ linker.result = "Ok"
    /\ Len(linker.new) >= 2
    /\ linker.new[1].kind = "Def"
    /\ linker.new[1].callee = "print"
    /\ linker.new[2].kind = "ClassDef"
    /\ linker.new[2].def.callee = "Inherit"
    /\ linker.def_root_pos_map[linker.new[2].def.name] = 1

\* C27: whichever constructor builds a diagnostic, the diagnostic has the
\* kind the taxonomy gives that constructor.
C27_ConstructorKinds ==
    [][LET taxonomy ==
               [NameError |->
                    {"duplicate_decl_error", "duplicate_definition_error",
                     "no_var_error", "access_before_def_error",
                     "access_deleted_var_error", "no_type_error",
                     "type_not_found", "del_error", "override_error"},
                TypeError |->
                    {"violate_decl_error", "inner_typedef_error",
                     "invalid_type_cast_error"},
                SyntaxError |-> {"syntax_error", "declare_error"},
                AttributeError |-> {"no_attr_error", "singular_no_attr_error"},
                AssignError |-> {"reassign_error"},
                VisibilityError |-> {"visibility_error"},
                InheritanceError |-> {"inheritance_error"},
                IoError |-> {"file_error", "module_env_error"},
                ImportError |-> {"import_error"},
                UnusedWarning |-> {"unused_expr_warning", "unused_warning"},
                TypeWarning |-> {"union_return_type_warning"},
                NameWarning |-> {"builtin_exists_warning"}]
       IN  Len(errors') = Len(errors) + 1 =>
               \E kind \in DOMAIN taxonomy :
                   /\ last'.op \in taxonomy[kind]
                   /\ errors'[Len(errors')].kind = kind]_vars

\* the buffer holds a warning behind an error
C27_Witness ==
    /\ Len(errors) = 2
    /\ errors[1].kind = "IoError"
    /\ errors[2].kind = "NameWarning"
    /\ last.op = "builtin_exists_warning"

\* C28: lift() on an unbound cell with sandwich bounds takes every free
\* variable embedded in the bounds from its level m to m + 1 (GENERIC_LEVEL
\* stays GENERIC_LEVEL), whatever m is next to the level of the lifted cell.
C28_LiftRaisesEmbeddedByOne ==
    [][\A c \in Allocated(cells) :
        (/\ last'.op = "lift"
         /\ last'.cell = c
         /\ is_unbound(cells, c)
         /\ con_is_sandwiched(cells[c].constraint)
         /\ LiftOp(c))
            => \A d \in ConstraintCells(cells[c].constraint) :
                   is_unbound(cells, d)
                       => LET m == cells[d].lev
                          IN  /\ is_unbound(cells', d)
                              /\ cells'[d].lev =
                                     IF m = GENERIC_LEVEL THEN GENERIC_LEVEL
                                     ELSE m + 1]_vars

\* the cells a walk comes to from the cells of S in at most n steps: from an
\* unbound cell to the cells its sandwich bounds name, from a Linked cell to
\* the cells its term names
RECURSIVE WalkFrom(_, _, _)
WalkFrom(h, S, n) ==
    IF n = 0 THEN S
    ELSE WalkFrom(h,
             S \cup UNION {IF KindIsUnbound(h[d]) /\ con_is_sandwiched(h[d].constraint)
                           THEN ConstraintCells(h[d].constraint)
                           ELSE IF h[d].kind = "Linked" THEN TypeCells(h[d].t)
                           ELSE {} : d \in S},
             n - 1)

C30_SetLevelShortCircuits ==
    [][\A c \in Allocated(cells) :
        (/\ last'.op = "set_level"
         /\ last'.cell = c
         /\ is_unbound(cells, c))
            => \A lvl \in SetLevels :
                   (cells[c].lev = lvl /\ SetLevelOp(c, lvl))
                       => /\ last'.out = "ok"
                          /\ cells' = cells]_vars

\* C31: on every heap of unbound cells whose sandwich bounds name each
\* other or themselves, set_level(l) returns, and it stores the level of
\* each cell at most once.
C31_SetLevelVisitsOnce ==
    \A c \in Allocated(cells), lvl \in SetLevels :
        (\A d \in Allocated(cells) : is_unbound(cells, d))
            => LET walk == set_level(cells, c, lvl, StackDepth)
               IN  /\ walk.out = "ok"
                   /\ \A i, j \in 1 .. Len(walk.stores) :
                          walk.stores[i] = walk.stores[j] => i = j

\* C32: at every step of the pass, every name the position map has stands
\* for a position inside the output, and the item there is a ClassDef of a
\* definition of that name; so the pass never panics in the Methods branch
\* of a simple target: a panic comes from a target that is not simple only.
C32_PositionMap ==
    /\ \A n \in TargetNames :
           LET pos == linker.def_root_pos_map[n]
           IN  pos # NoPos =>
                   /\ pos >= 0
                   /\ pos < Len(linker.new)
                   /\ linker.new[pos + 1].kind = "ClassDef"
                   /\ linker.new[pos + 1].def.name = n
    /\ linker.result = "panic" =>
           LET at == Len(linker.input) - Len(linker.module)
           IN  /\ linker.input[at].kind = "Methods"
               /\ ~ linker.input[at].simple

\* the pass has registered two classes and absorbed a Methods block into
\* the first, with a third chunk behind it
C32_Witness ==
    /\ linker.result = "running"
    /\ linker.def_root_pos_map["A"] # NoPos
    /\ linker.def_root_pos_map["B"] # NoPos
    /\ Len(linker.new) = 2
    /\ Len(linker.new[1].methods_list) = 1

\* the place of the latest class definition of name n among the first i
\* chunks of a module; 0 if there is none
LatestClass(module, n, i) ==
    LET defs == {j \in 1 .. i :
                    /\ module[j].kind = "Def"
                    /\ module[j].callee \in {"Class", "Inherit", "Inheritable"}
                    /\ module[j].name = n}
    IN  IF defs = {} THEN 0 ELSE CHOOSE j \in defs : \A k \in defs : k <= j

\* C33: a Methods block with a simple target that no earlier chunk defines
\* as a class, while a later chunk does, is answered by exactly one
\* diagnostic and sits in no methods list, neither when it has been handled
\* nor after the class has been defined nor when link has returned.
C33_EarlierClassesOnly ==
    linker.result # "panic" =>
        \A i \in 1 .. Len(linker.input) - Len(linker.module) :
            (/\ linker.input[i].kind = "Methods"
             /\ linker.input[i].simple
             /\ LatestClass(linker.input, linker.input[i].name, i) = 0
             /\ LatestClass(linker.input, linker.input[i].name,
                            Len(linker.input)) > i)
                => /\ Cardinality({e \in 1 .. Len(linker.errs) :
                                      linker.errs[e].loc = i}) = 1
                   /\ \A k \in 1 .. Len(linker.new) :
                          linker.new[k].kind = "ClassDef" =>
                              \A j \in 1 .. Len(linker.new[k].methods_list) :
                                  linker.new[k].methods_list[j] # linker.input[i]
                   /\ linker.result # "Ok"

\* link returned an error for a Methods block whose class is defined by the
\* next chunk, and the class is in the output without methods
C33_Witness ==
    /\ linker.result = "Err"
    /\ Len(linker.input) >= 2
    /\ linker.input[1].kind = "Methods"
    /\ linker.input[1].simple
    /\ linker.input[2].kind = "Def"
    /\ linker.input[2].callee = "Class"
    /\ linker.input[2].name = linker.input[1].name
    /\ linker.errs[1].loc = 1
    /\ linker.new[1].kind = "ClassDef"
    /\ linker.new[1].methods_list = <<>>

\* C34: every class definition is in the output as a ClassDef, also one
\* whose name an earlier class has; the position map holds, for a name, the
\* place of the ClassDef of its latest definition; and a Methods block is
\* absorbed into the ClassDef of the latest class definition of its name
\* that precedes it, and leaves every other ClassDef as it was.
C34_LatestDefinitionWins ==
    /\ [](linker.result # "panic" =>
            LET handled == Len(linker.input) - Len(linker.module)
            IN  /\ \A j \in 1 .. handled :
                       (/\ linker.input[j].kind = "Def"
                        /\ linker.input[j].callee
                               \in {"Class", "Inherit", "Inheritable"})
                           => \E k \in 1 .. Len(linker.new) :
                                  /\ linker.new[k].kind = "ClassDef"
                                  /\ linker.new[k].def = linker.input[j]
                /\ \A n \in TargetNames :
                       LET latest == LatestClass(linker.input, n, handled)
                           pos == linker.def_root_pos_map[n]
                       IN  IF latest = 0 THEN pos = NoPos
                           ELSE /\ pos # NoPos
                                /\ linker.new[pos + 1].def = linker.input[latest])
    /\ [][AbsorbsNext(linker) =>
             LET methods == Head(linker.module)
                 latest == LatestClass(linker.input, methods.name, methods.id)
             IN  \A k \in 1 .. Len(linker.new) :
                     IF linker.new[k].kind = "ClassDef"
                            /\ linker.new[k].def = linker.input[latest]
                     THEN linker'.new[k].methods_list
                              = linker.new[k].methods_list \o <<methods>>
                     ELSE linker'.new[k] = linker.new[k]]_vars

\* link returned a module with two classes of one name, the second of
\* which has absorbed the Methods block that came after both
C34_Witness ==
    /\ linker.result = "Ok"
    /\ Len(linker.new) = 2
    /\ linker.new[1].kind = "ClassDef"
    /\ linker.new[2].kind = "ClassDef"
    /\ linker.new[1].def.name = linker.new[2].def.name
    /\ linker.new[1].methods_list = <<>>
    /\ Len(linker.new[2].methods_list) = 1

\* the state a FreeKind was in before its speculative links
RECURSIVE Oldest(_)
Oldest(k) == IF k.kind = "UndoableLinked" THEN Oldest(k.previous) ELSE k

C36_GeneralizedStays ==
    [][\A c \in Allocated(cells) :
        (/\ last'.cell = c
         /\ \/ last'.op \in {"lift", "lower"}
            \/ last'.op = "update_constraint" /\ last'.arg = "false"
         /\ is_unbound(cells, c)
         /\ cells[c].lev = GENERIC_LEVEL)
            => /\ last'.out \in {"ok", "rejected"}
               /\ \A d \in Allocated(cells) :
                      (is_unbound(cells, d) /\ cells[d].lev = GENERIC_LEVEL)
                          => /\ is_unbound(cells', d)
                             /\ cells'[d].lev = GENERIC_LEVEL
                             /\ cells'[d].constraint = cells[d].constraint
                             /\ is_generalized(cells', d)]_vars

\* lift has run on a generalized cell whose lower bound names another cell
C36_Witness ==
    /\ last.op = "lift"
    /\ last.out = "ok"
    /\ is_unbound(cells, last.cell)
    /\ cells[last.cell].lev = GENERIC_LEVEL
    /\ cells[last.cell].constraint.ctag = "Sandwiched"
    /\ cells[last.cell].constraint.sub.tag = "FreeVar"
    /\ cells[last.cell].constraint.sub.cell # last.cell

\* C37: set_level, lift, lower and generalize on an UndoableLinked cell
\* change nothing: not the cell, not the state saved in it, not the cell
\* the linked term names, nor any other cell; so undo() after them puts
\* back the state, level included, that the cell had before the link.
C37_HeldCellKeepsLevel ==
    [][\A c \in Allocated(cells) :
        (/\ last'.cell = c
         /\ last'.op \in {"set_level", "lift", "lower", "generalize"}
         /\ is_undoable_linked(cells, c))
            => /\ cells' = cells
               /\ journal' = journal
               /\ undo(cells', c).out = "ok"
               /\ undo(cells', c).h[c] = journal[c][Len(journal[c]) - 1]
               /\ KindIsUnbound(cells[c].previous)
                      => undo(cells', c).h[c].lev = cells[c].previous.lev]_vars

\* set_level has run on a cell speculatively linked to another cell, with
\* a level that neither the saved state nor the other cell has
C37_Witness ==
    /\ last.op = "set_level"
    /\ last.out = "ok"
    /\ last.pre = "UndoableLinked"
    /\ is_undoable_linked(cells, last.cell)
    /\ KindIsUnbound(cells[last.cell].previous)
    /\ cells[last.cell].previous.lev = GENERIC_LEVEL
    /\ cells[last.cell].t.tag = "FreeVar"
    /\ cells[last.cell].t.cell # last.cell
    /\ is_unbound(cells, cells[last.cell].t.cell)
    /\ cells[cells[last.cell].t.cell].lev = 0

\* C38: == on cells is an equivalence relation: on the cells of every
\* reachable heap it is reflexive, symmetric and transitive.
C38_EqIsEquivalence ==
    \A a, b, c \in Allocated(cells) :
        /\ Free_eq(cells, a, a, StackDepth).out = "true"
        /\ Free_eq(cells, a, b, StackDepth).out = "true"
               => Free_eq(cells, b, a, StackDepth).out = "true"
        /\ (/\ Free_eq(cells, a, b, StackDepth).out = "true"
            /\ Free_eq(cells, b, c, StackDepth).out = "true")
               => Free_eq(cells, a, c, StackDepth).out = "true"

\* C39: two cells that == finds equal feed the hasher the same values.
C39_HashAgreesWithEq ==
    \A a, b \in Allocated(cells) :
        Free_eq(cells, a, b, StackDepth).out = "true"
            => Free_hash(cells, a, StackDepth).val
                   = Free_hash(cells, b, StackDepth).val
====
